---- MODULE Spec2Model ----
(***************************************************************************)
(* A model of the retrieval and ranking core of Chatbot-Multi-Source:      *)
(* row-based table chunking, batched insertion into the vector index,      *)
(* context assembly, table preprocessing and its header loop, the          *)
(* structured-query fallback alone and under two concurrent requests,      *)
(* sheet ranking, retrieval, the document index with its routes, the       *)
(* embedding function and the sheets of a handler.  Each part has its own  *)
(* specification (SpecChunk, SpecAdd, SpecContext, SpecPreprocess,         *)
(* SpecHeader, SpecFallback, SpecConcurrent, SpecRank, SpecRetrieve,       *)
(* SpecIndex, SpecEmbed, SpecSheets); the variables of the other parts     *)
(* keep their initial values.                                              *)
(***************************************************************************)
EXTENDS Integers, Sequences, FiniteSets, TLC

VARIABLES
    \* ---- DocumentProcessor.chunk_csv_by_rows / chunk_excel_by_rows ----
    ck_df,          \* the dataframe of the outermost call: a sequence of rows
    ck_rpc,         \* rows_per_chunk of the outermost call
    ck_max,         \* max_chunk_size
    ck_excel,       \* TRUE: chunk_excel_by_rows, FALSE: chunk_csv_by_rows
    ck_stack,       \* the Python call stack of the recursion, innermost last
    ck_chunks,      \* the chunks appended so far, in order
    ck_pc,          \* "running", "returned" or "raised" (RecursionError)
    \* ---- VectorStore.add_documents ----
    ad_n,           \* len(texts); item k is the one at index k, 0-based
    ad_bad,         \* the indices of the items the collection cannot insert
    ad_flaky,       \* the batch starts whose batch insert fails transiently
    ad_store,       \* the collection: the committed items, in commit order
    ad_all_ids,     \* all_ids
    ad_i,           \* i of the batch loop
    ad_j,           \* j of the one-by-one loop
    ad_log,         \* every collection.add call so far, in order
    ad_pc,          \* "batch", "items", "returned" or "raised"
    \* ---- RAGPipeline.get_document_context ----
    cx_docs,        \* documents: a sequence of [source, text]
    cx_max,         \* max_context_length
    cx_i,           \* the position of the for loop in documents, 1-based
    cx_parts,       \* context_parts
    cx_refs,        \* references
    cx_total,       \* total_length
    cx_context,     \* context_string, once joined
    cx_sources,     \* source_references, once listed
    cx_pc,          \* "loop", "joining" or "returned"
    \* ---- preprocess_dataframe / CSVExcelHandler.preprocess_sheet ----
    pp_sheet,       \* TRUE: preprocess_sheet, FALSE: preprocess_dataframe
    pp_raw,         \* the raw table: [columns, rows]
    pp_once,        \* preprocess(raw)
    pp_twice,       \* preprocess(preprocess(raw))
    pp_pc,          \* "raw", "once" or "twice": how far the calls have got
    \* ---- _query_with_csv_context ----
    fb_files,       \* loaded_files: the handlers in insertion order, each the
                    \* sequence of its sheets [score, empty] in insertion order
    fb_sheets,      \* sheets_to_try
    fb_k,           \* the position of the for loop in sheets_to_try, 1-based
    fb_current,     \* current_sheet of every handler (0: as loaded)
    fb_log,         \* the positions in sheets_to_try the agent was invoked for
    fb_last_error,  \* last_error
    fb_seen,        \* what the agent has given so far: response |-> the last
                    \* response_text that was not conclusive (None: none yet),
                    \* raised |-> whether the agent raised when invoked last
    fb_result,      \* the QueryResponse returned, or the HTTPException raised
    fb_pc,          \* "start", "loop", "returned" or "failed"
    \* ---- CSVExcelHandler.find_most_relevant_sheets ----
    rk_dfs,         \* dfs: the sheets [score, empty] in insertion order
    rk_top_n,       \* top_n
    rk_scored,      \* the sheets calculate_sheet_relevance was called for
    rk_result,      \* the sheet names returned, a name being a position in dfs
    rk_pc,          \* "called" or "returned"
    \* ---- VectorStore (the collection, the dataframes) and RAGPipeline ----
    ix_chunks,      \* the collection in scan order: [id, metadata, dist],
                    \* dist the cosine distance to the query, in hundredths
    ix_frames,      \* the stored dataframes: [memory, disk], sets of keys
    ix_config,      \* retrieval_config: similarity_threshold in hundredths
    ix_call,        \* the route handler under way, if any (removed: the chunks
                    \* its delete_document_by_source has deleted)
    ix_out,         \* what the last operation returned or raised
    \* ---- ChromaDBEmbeddingFunction under collection.add and collection.query ----
    em_store,       \* the lengths of the texts in the collection, in insertion order
    em_out,         \* the last call: [op, status, attempts], attempts the calls of the
                    \* embedding function made for it, each [input, invoked, stored]
    \* ---- CSVExcelHandler: load_and_preprocess_data, switch_sheet ----
    sh_file,        \* the file: [type, sheets], sheets the sheets read from it in file
                    \* order, each [name, empty], empty once preprocessed
    sh_dfs,         \* dfs: the tables kept, in insertion order, each [name, empty]
    sh_current,     \* current_sheet, a sheet name (NoSheet: None)
    sh_out,         \* what the last call returned or raised
    sh_pc,          \* "new", "loaded" or "failed"
    \* ---- the header loop of preprocess_dataframe / preprocess_sheet ----
    hd_sheet,       \* TRUE: preprocess_sheet, FALSE: preprocess_dataframe
    hd_in,          \* the table the loop starts from: [columns, rows]
    hd_df,          \* df
    hd_iteration,   \* iteration (preprocess_dataframe only)
    hd_promotions,  \* how often a row has been made the column labels
    hd_pc,          \* "loop" or "exit"
    \* ---- two _query_with_csv_context requests on one CSVExcelHandler ----
    cc_dfs,         \* dfs of the shared handler: the tables [name, empty]
    cc_current,     \* current_sheet of the shared handler
    cc_sheets,      \* sheets_to_try of each request: sheet names, best first
    cc_k,           \* the position of the for loop of each request, 1-based
    cc_df,          \* df of each request: the table its agent was created with
    cc_switched,    \* the switch_sheet calls made so far: [request, sheet_name]
    cc_result,      \* what each request returned or raised
    cc_pc           \* of each request: "start", "awaiting" (at await
                    \* agent.ainvoke), "returned" or "failed"

ad_vars == <<ad_n, ad_bad, ad_flaky, ad_store, ad_all_ids, ad_i, ad_j, ad_log, ad_pc>>

ck_vars == <<ck_df, ck_rpc, ck_max, ck_excel, ck_stack, ck_chunks, ck_pc>>

cx_vars ==
    <<cx_docs, cx_max, cx_i, cx_parts, cx_refs, cx_total, cx_context, cx_sources,
      cx_pc>>

pp_vars == <<pp_sheet, pp_raw, pp_once, pp_twice, pp_pc>>

fb_vars ==
    <<fb_files, fb_sheets, fb_k, fb_current, fb_log, fb_last_error, fb_seen,
      fb_result, fb_pc>>

rk_vars == <<rk_dfs, rk_top_n, rk_scored, rk_result, rk_pc>>

ix_vars == <<ix_chunks, ix_frames, ix_config, ix_call, ix_out>>

em_vars == <<em_store, em_out>>

sh_vars == <<sh_file, sh_dfs, sh_current, sh_out, sh_pc>>

hd_vars == <<hd_sheet, hd_in, hd_df, hd_iteration, hd_promotions, hd_pc>>

cc_vars ==
    <<cc_dfs, cc_current, cc_sheets, cc_k, cc_df, cc_switched, cc_result, cc_pc>>

vars ==
    <<ck_vars, ad_vars, cx_vars, pp_vars, fb_vars, rk_vars, ix_vars, em_vars,
      sh_vars, hd_vars, cc_vars>>

\* what the actions of each part leave alone
ck_others ==
    <<ad_vars, cx_vars, pp_vars, fb_vars, rk_vars, ix_vars, em_vars, sh_vars,
      hd_vars, cc_vars>>
ad_others ==
    <<ck_vars, cx_vars, pp_vars, fb_vars, rk_vars, ix_vars, em_vars, sh_vars,
      hd_vars, cc_vars>>
cx_others ==
    <<ck_vars, ad_vars, pp_vars, fb_vars, rk_vars, ix_vars, em_vars, sh_vars,
      hd_vars, cc_vars>>
pp_others ==
    <<ck_vars, ad_vars, cx_vars, fb_vars, rk_vars, ix_vars, em_vars, sh_vars,
      hd_vars, cc_vars>>
fb_others ==
    <<ck_vars, ad_vars, cx_vars, pp_vars, rk_vars, ix_vars, em_vars, sh_vars,
      hd_vars, cc_vars>>
rk_others ==
    <<ck_vars, ad_vars, cx_vars, pp_vars, fb_vars, ix_vars, em_vars, sh_vars,
      hd_vars, cc_vars>>
ix_others ==
    <<ck_vars, ad_vars, cx_vars, pp_vars, fb_vars, rk_vars, em_vars, sh_vars,
      hd_vars, cc_vars>>
em_others ==
    <<ck_vars, ad_vars, cx_vars, pp_vars, fb_vars, rk_vars, ix_vars, sh_vars,
      hd_vars, cc_vars>>
sh_others ==
    <<ck_vars, ad_vars, cx_vars, pp_vars, fb_vars, rk_vars, ix_vars, em_vars,
      hd_vars, cc_vars>>
hd_others ==
    <<ck_vars, ad_vars, cx_vars, pp_vars, fb_vars, rk_vars, ix_vars, em_vars,
      sh_vars, cc_vars>>
cc_others ==
    <<ck_vars, ad_vars, cx_vars, pp_vars, fb_vars, rk_vars, ix_vars, em_vars,
      sh_vars, hd_vars>>

\* the state of a part no call of which is under way
ChunkIdle ==
    /\ ck_df = <<>> /\ ck_rpc = 1 /\ ck_max = 0 /\ ck_excel = FALSE
    /\ ck_stack = <<>> /\ ck_chunks = <<>> /\ ck_pc = "returned"

AddIdle ==
    /\ ad_n = 0 /\ ad_bad = {} /\ ad_flaky = {} /\ ad_store = <<>>
    /\ ad_all_ids = <<>> /\ ad_i = 0 /\ ad_j = 0 /\ ad_log = <<>>
    /\ ad_pc = "returned"

ContextIdle ==
    /\ cx_docs = <<>> /\ cx_max = 0 /\ cx_i = 1 /\ cx_parts = <<>>
    /\ cx_refs = {} /\ cx_total = 0 /\ cx_context = <<>> /\ cx_sources = <<>>
    /\ cx_pc = "returned"

EmptyTable == [columns |-> <<>>, rows |-> <<>>]

PreprocessIdle ==
    /\ pp_sheet = FALSE /\ pp_raw = EmptyTable /\ pp_once = EmptyTable
    /\ pp_twice = EmptyTable /\ pp_pc = "twice"

None == <<"None">>
NoResult == [status |-> "none"]
NoFrames == [memory |-> {}, disk |-> {}]
NoCall == [op |-> "none"]
NoOutcome == [op |-> "none"]
NoSheet == "None"
DefaultConfig == [default_k |-> 5, max_k |-> 20, similarity_threshold |-> 30]
NothingSeen == [response |-> None, raised |-> FALSE]

FallbackIdle ==
    /\ fb_files = <<>> /\ fb_sheets = <<>> /\ fb_k = 1 /\ fb_current = <<>>
    /\ fb_log = <<>> /\ fb_last_error = None /\ fb_seen = NothingSeen
    /\ fb_result = NoResult /\ fb_pc = "returned"

RankIdle ==
    /\ rk_dfs = <<>> /\ rk_top_n = 0 /\ rk_scored = <<>> /\ rk_result = <<>>
    /\ rk_pc = "returned"

IndexIdle ==
    /\ ix_chunks = <<>> /\ ix_frames = NoFrames /\ ix_config = DefaultConfig
    /\ ix_call = NoCall /\ ix_out = NoOutcome

EmbedIdle ==
    /\ em_store = <<>> /\ em_out = NoOutcome

SheetsIdle ==
    /\ sh_file = [type |-> "csv", sheets |-> <<>>] /\ sh_dfs = <<>>
    /\ sh_current = NoSheet /\ sh_out = NoOutcome /\ sh_pc = "failed"

HeaderIdle ==
    /\ hd_sheet = FALSE /\ hd_in = EmptyTable /\ hd_df = EmptyTable
    /\ hd_iteration = 0 /\ hd_promotions = 0 /\ hd_pc = "exit"

ConcurrentIdle ==
    /\ cc_dfs = <<>> /\ cc_current = 0 /\ cc_sheets = <<>> /\ cc_k = <<>>
    /\ cc_df = <<>> /\ cc_switched = <<>> /\ cc_result = <<>> /\ cc_pc = <<>>

Max(a, b) == IF a >= b THEN a ELSE b
Min(a, b) == IF a <= b THEN a ELSE b

RECURSIVE Flatten(_)
Flatten(ss) == IF ss = <<>> THEN <<>> ELSE Head(ss) \o Flatten(Tail(ss))

(***************************************************************************)
(* Row chunking.                                                           *)
(* A row is [pos |-> its 1-based position in the outermost dataframe,      *)
(* w |-> the printed width of its cell].  The table has one column.        *)
(***************************************************************************)
MaxRows == 4            \* rows of the input table
MaxRowsPerChunk == 4    \* rows_per_chunk of the outermost call
RecursionLimit == 6     \* depth at which Python raises RecursionError

ColumnName == <<"x">>
SheetName == <<"S", "1">>
CellWidths == {1, 8}
ChunkSizes == {20, 30, 40, 60, 100}

\* len(str(n)) for the row numbers that occur
Digits(n) == IF n < 10 THEN 1 ELSE IF n < 100 THEN 2 ELSE 3

\* len(tabulate(chunk_df, tablefmt="pipe", headers="keys", showindex=False)):
\* a header line, a separator line and one line per row, all of one width,
\* joined by newlines.  The column is as wide as its widest cell and at
\* least the header plus tabulate's minimum padding of 2; the pipe format
\* adds one blank on each side and the bars.
TabulateLen(rows) ==
    LET n == Len(rows)
        colw == Max(Len(ColumnName) + 2,
                    IF n = 0 THEN 0
                    ELSE CHOOSE m \in {rows[i].w : i \in 1..n} :
                             \A i \in 1..n : rows[i].w <= m)
        line == colw + 4
    IN  (n + 2) * line + (n + 1)

\* len(f"## Sheet: {sheet_name} (Rows {start_idx + 1}-{end_idx})\n\n")
SheetHeaderLen(start_idx, end_idx) ==
    10 + Len(SheetName) + 7 + Digits(start_idx + 1) + 1 + Digits(end_idx) + 3

\* df.iloc[start_idx:end_idx]
ILoc(df, start_idx, end_idx) == SubSeq(df, start_idx + 1, end_idx)

\* The chunk a loop iteration renders from chunk_df: markdown_table, or
\* sheet_header + markdown_table.  banner is the 'Rows a-b' pair printed.
RenderChunk(excel, chunk_df, start_idx, end_idx) ==
    [rows   |-> [i \in 1..Len(chunk_df) |-> chunk_df[i].pos],
     banner |-> IF excel THEN <<start_idx + 1, end_idx>> ELSE <<>>,
     len    |-> TabulateLen(chunk_df)
                + (IF excel THEN SheetHeaderLen(start_idx, end_idx) ELSE 0)]

\* a slip that measures the window in rows instead of characters
TooLargeCountsRows(chunk, max_chunk_size) == Len(chunk.rows) > max_chunk_size

\* the test that sends a window to the recursive call
TooLarge(chunk, max_chunk_size) == chunk.len > max_chunk_size

\* rows_per_chunk of the recursive call
ReducedRows(current_rows_per_chunk) == Max(1, current_rows_per_chunk \div 2)

ChunkInputs ==
    UNION {[1..n -> CellWidths] : n \in 0..MaxRows}

ChunkInit ==
    /\ AddIdle /\ ContextIdle /\ PreprocessIdle /\ FallbackIdle /\ RankIdle
    /\ IndexIdle /\ EmbedIdle /\ SheetsIdle
    /\ HeaderIdle
    /\ ConcurrentIdle
    /\ \E ws \in ChunkInputs :
          ck_df = [i \in 1..Len(ws) |-> [pos |-> i, w |-> ws[i]]]
    /\ ck_rpc \in 1..MaxRowsPerChunk
    /\ ck_max \in ChunkSizes
    /\ ck_excel \in BOOLEAN
    /\ ck_stack = <<[df |-> ck_df, rpc |-> ck_rpc, start_idx |-> 0]>>
    /\ ck_chunks = <<>>
    /\ ck_pc = "running"

ChunkTop == ck_stack[Len(ck_stack)]

ChunkWindow(f) ==
    LET end_idx == Min(f.start_idx + f.rpc, Len(f.df))
    IN  RenderChunk(ck_excel, ILoc(f.df, f.start_idx, end_idx), f.start_idx, end_idx)

\* a slip that steps the loop by one row instead of by the window
ChunkAdvanceOneRow(f) == [f EXCEPT !.start_idx = f.start_idx + 1]

\* the next value of range(0, total_rows, current_rows_per_chunk)
ChunkAdvance(f) == [f EXCEPT !.start_idx = f.start_idx + f.rpc]

\* one iteration of the for loop whose window fits: chunks.append(...)
ChunkAppend ==
    /\ ck_pc = "running"
    /\ ck_stack # <<>>
    /\ ChunkTop.start_idx < Len(ChunkTop.df)
    /\ ~TooLarge(ChunkWindow(ChunkTop), ck_max)
    /\ ck_chunks' = Append(ck_chunks, ChunkWindow(ChunkTop))
    /\ ck_stack' = [ck_stack EXCEPT ![Len(ck_stack)] = ChunkAdvance(ChunkTop)]
    /\ UNCHANGED ck_others
    /\ UNCHANGED <<ck_df, ck_rpc, ck_max, ck_excel, ck_pc>>

\* one iteration whose window is too large: the recursive call on chunk_df
ChunkRecurse ==
    /\ ck_pc = "running"
    /\ ck_stack # <<>>
    /\ ChunkTop.start_idx < Len(ChunkTop.df)
    /\ TooLarge(ChunkWindow(ChunkTop), ck_max)
    /\ Len(ck_stack) < RecursionLimit
    /\ LET f == ChunkTop
           end_idx == Min(f.start_idx + f.rpc, Len(f.df))
       IN  ck_stack' = Append(
               [ck_stack EXCEPT ![Len(ck_stack)] = ChunkAdvance(f)],
               [df |-> ILoc(f.df, f.start_idx, end_idx),
                rpc |-> ReducedRows(f.rpc),
                start_idx |-> 0])
    /\ UNCHANGED ck_others
    /\ UNCHANGED <<ck_df, ck_rpc, ck_max, ck_excel, ck_chunks, ck_pc>>

\* the recursive call that exceeds the interpreter's recursion limit: the
\* RecursionError unwinds every frame and the outermost call returns nothing
ChunkRaise ==
    /\ ck_pc = "running"
    /\ ck_stack # <<>>
    /\ ChunkTop.start_idx < Len(ChunkTop.df)
    /\ TooLarge(ChunkWindow(ChunkTop), ck_max)
    /\ Len(ck_stack) >= RecursionLimit
    /\ ck_pc' = "raised"
    /\ ck_stack' = <<>>
    /\ ck_chunks' = <<>>
    /\ UNCHANGED ck_others
    /\ UNCHANGED <<ck_df, ck_rpc, ck_max, ck_excel>>

\* the for loop is exhausted: return chunks (the caller extends its list)
ChunkReturn ==
    /\ ck_pc = "running"
    /\ ck_stack # <<>>
    /\ ChunkTop.start_idx >= Len(ChunkTop.df)
    /\ ck_stack' = SubSeq(ck_stack, 1, Len(ck_stack) - 1)
    /\ ck_pc' = IF Len(ck_stack) = 1 THEN "returned" ELSE "running"
    /\ UNCHANGED ck_others
    /\ UNCHANGED <<ck_df, ck_rpc, ck_max, ck_excel, ck_chunks>>

ChunkNext == ChunkAppend \/ ChunkRecurse \/ ChunkRaise \/ ChunkReturn

SpecChunk == ChunkInit /\ [][ChunkNext]_vars

\* the row positions of the emitted chunks, concatenated in emission order
ChunkedRows == Flatten([i \in 1..Len(ck_chunks) |-> ck_chunks[i].rows])
InputRows == [i \in 1..Len(ck_df) |-> i]
ChunkDone == ck_pc \in {"returned", "raised"}

\* C1: when a call of chunk_csv_by_rows / chunk_excel_by_rows is over, the
\* rows of its chunks, concatenated in emission order, are the input rows,
\* each exactly once and in order.
C1_ChunkCoverage == ChunkDone => ChunkedRows = InputRows

\* C2: row chunking terminates for every table, rows_per_chunk >= 1 and
\* max_chunk_size: the call never dies of unbounded recursion, and a row
\* that alone renders longer than max_chunk_size is emitted as its own chunk.
C2_ChunkingTerminates ==
    /\ ck_pc # "raised"
    /\ ck_pc = "returned" =>
          \A i \in 1..Len(ck_df) :
              TooLarge(RenderChunk(ck_excel, <<ck_df[i]>>, 0, 1), ck_max)
                  => \E c \in 1..Len(ck_chunks) : ck_chunks[c].rows = <<i>>

\* C3: every chunk emitted by chunk_csv_by_rows has rendered length at most
\* max_chunk_size or consists of exactly one row.
C3_SizeBound ==
    ~ck_excel =>
        \A c \in 1..Len(ck_chunks) :
            ck_chunks[c].len <= ck_max \/ Len(ck_chunks[c].rows) = 1

\* a csv call that re-split an oversized window and still emitted a chunk of
\* several rows
C3_Witness ==
    /\ ~ck_excel
    /\ ck_pc = "returned"
    /\ Len(ck_chunks) * ck_rpc >= Len(ck_df) + ck_rpc
    /\ \E c \in 1..Len(ck_chunks) : Len(ck_chunks[c].rows) >= 2

\* ceil(n / r)
CeilDiv(n, r) == (n + r - 1) \div r

\* the window the outermost loop renders in its i-th iteration, 1-based
OuterWindow(i) ==
    LET start_idx == (i - 1) * ck_rpc
        end_idx == Min(start_idx + ck_rpc, Len(ck_df))
    IN  RenderChunk(ck_excel, ILoc(ck_df, start_idx, end_idx), start_idx, end_idx)

\* no window of the outermost call renders longer than max_chunk_size
EveryWindowFits ==
    \A i \in 1..CeilDiv(Len(ck_df), ck_rpc) : ~TooLarge(OuterWindow(i), ck_max)

\* C21: when no rendered row window exceeds max_chunk_size, a table of n rows
\* chunked with rows_per_chunk r yields exactly ceil(n/r) chunks, the i-th
\* holding rows (i-1)*r+1 .. min(i*r, n) whole and rendered as one table
\* under the header line.
C21_UnconstrainedLayout ==
    (ck_pc = "returned" /\ EveryWindowFits) =>
        /\ Len(ck_chunks) = CeilDiv(Len(ck_df), ck_rpc)
        /\ \A i \in 1..Len(ck_chunks) :
              /\ ck_chunks[i].rows =
                    [j \in 1..(Min(i * ck_rpc, Len(ck_df)) - (i - 1) * ck_rpc) |->
                        (i - 1) * ck_rpc + j]
              /\ ck_chunks[i].len = OuterWindow(i).len
              /\ ck_chunks[i].len >=
                    TabulateLen(<<>>) + Len(ck_chunks[i].rows) * (Len(ColumnName) + 7)

\* a table chunked without any re-split into two full windows and a shorter
\* last one
C21_Witness ==
    /\ ck_pc = "returned"
    /\ EveryWindowFits
    /\ ck_rpc >= 2
    /\ Len(ck_chunks) >= 2
    /\ Len(ck_df) % ck_rpc # 0
    /\ Len(ck_chunks[Len(ck_chunks)].rows) < ck_rpc

BatchSize == 100        \* batch_size
MaxItems == 150         \* the largest len(texts) of a call

AddSizes == {0, 1, BatchSize - 1, BatchSize, BatchSize + 1, MaxItems}
BadChoices(n) ==
    {{}} \cup {{b} : b \in 0..(n - 1)} \cup {{b, n - 1} : b \in 0..(n - 1)}
FlakyChoices == {{}, {0}, {BatchSize}}

\* a slip that slices one item too many: ids[i:i+batch_size+1]
BatchOfOneMore(i, n) == i..Min(i + BatchSize, n - 1)

\* ids[i:i+batch_size], as the interval of indices it holds
BatchOf(i, n) == i..(Min(i + BatchSize, n) - 1)

\* the items lo..hi in input order
Interval(lo, hi) == [k \in 1..(hi - lo + 1) |-> lo + k - 1]

\* collection.add(documents=..., metadatas=..., ids=...) succeeds
CollectionAddOk(items, bad) == items \cap bad = {}

\* a slip that logs the failure of an item and goes on to the next one
ItemFailureSwallowed(j) == [pc |-> "items", j |-> j + 1]

\* the bare raise in the handler of a failed one-by-one insert
ItemFailure(j) == [pc |-> "raised", j |-> j]

AddInit ==
    /\ ChunkIdle /\ ContextIdle /\ PreprocessIdle /\ FallbackIdle
    /\ RankIdle /\ IndexIdle /\ EmbedIdle /\ SheetsIdle
    /\ HeaderIdle
    /\ ConcurrentIdle
    /\ ad_n \in AddSizes
    /\ ad_bad \in BadChoices(ad_n)
    /\ ad_flaky \in FlakyChoices
    /\ ad_store = <<>>
    /\ ad_all_ids = <<>>
    /\ ad_i = 0
    /\ ad_j = 0
    /\ ad_log = <<>>
    /\ ad_pc = "batch"

\* collection.add of a whole batch succeeds: all_ids.extend(batch_ids)
AddBatchOk ==
    /\ ad_pc = "batch"
    /\ ad_i < ad_n
    /\ CollectionAddOk(BatchOf(ad_i, ad_n), ad_bad)
    /\ ad_i \notin ad_flaky
    /\ LET hi == Min(ad_i + BatchSize, ad_n) - 1
       IN  /\ ad_store' = ad_store \o Interval(ad_i, hi)
           /\ ad_all_ids' = ad_all_ids \o Interval(ad_i, hi)
           /\ ad_log' = Append(ad_log, [kind |-> "batch", lo |-> ad_i, hi |-> hi, ok |-> TRUE])
    /\ ad_i' = ad_i + BatchSize
    /\ UNCHANGED <<ad_n, ad_bad, ad_flaky, ad_j, ad_pc>>
    /\ UNCHANGED ad_others

\* collection.add of a whole batch raises: go on one by one
AddBatchFail ==
    /\ ad_pc = "batch"
    /\ ad_i < ad_n
    /\ ~CollectionAddOk(BatchOf(ad_i, ad_n), ad_bad) \/ ad_i \in ad_flaky
    /\ ad_log' = Append(ad_log, [kind |-> "batch", lo |-> ad_i,
                                 hi |-> Min(ad_i + BatchSize, ad_n) - 1, ok |-> FALSE])
    /\ ad_pc' = "items"
    /\ ad_j' = 0
    /\ UNCHANGED <<ad_n, ad_bad, ad_flaky, ad_store, ad_all_ids, ad_i>>
    /\ UNCHANGED ad_others

\* collection.add of one item of the failed batch succeeds
AddItemOk ==
    /\ ad_pc = "items"
    /\ ad_i + ad_j \in BatchOf(ad_i, ad_n)
    /\ CollectionAddOk({ad_i + ad_j}, ad_bad)
    /\ ad_store' = Append(ad_store, ad_i + ad_j)
    /\ ad_all_ids' = Append(ad_all_ids, ad_i + ad_j)
    /\ ad_log' = Append(ad_log, [kind |-> "item", lo |-> ad_i + ad_j,
                                 hi |-> ad_i + ad_j, ok |-> TRUE])
    /\ ad_j' = ad_j + 1
    /\ UNCHANGED <<ad_n, ad_bad, ad_flaky, ad_i, ad_pc>>
    /\ UNCHANGED ad_others

\* collection.add of one item raises: logged and raised again, through the
\* outer handler, to the caller
AddItemFail ==
    /\ ad_pc = "items"
    /\ ad_i + ad_j \in BatchOf(ad_i, ad_n)
    /\ ~CollectionAddOk({ad_i + ad_j}, ad_bad)
    /\ ad_log' = Append(ad_log, [kind |-> "item", lo |-> ad_i + ad_j,
                                 hi |-> ad_i + ad_j, ok |-> FALSE])
    /\ ad_pc' = ItemFailure(ad_j).pc
    /\ ad_j' = ItemFailure(ad_j).j
    /\ UNCHANGED <<ad_n, ad_bad, ad_flaky, ad_store, ad_all_ids, ad_i>>
    /\ UNCHANGED ad_others

\* the one-by-one loop is exhausted: next batch
AddItemsDone ==
    /\ ad_pc = "items"
    /\ ad_i + ad_j \notin BatchOf(ad_i, ad_n)
    /\ ad_pc' = "batch"
    /\ ad_i' = ad_i + BatchSize
    /\ UNCHANGED <<ad_n, ad_bad, ad_flaky, ad_store, ad_all_ids, ad_j, ad_log>>
    /\ UNCHANGED ad_others

\* the batch loop is exhausted: return all_ids
AddReturn ==
    /\ ad_pc = "batch"
    /\ ad_i >= ad_n
    /\ ad_pc' = "returned"
    /\ UNCHANGED <<ad_n, ad_bad, ad_flaky, ad_store, ad_all_ids, ad_i, ad_j, ad_log>>
    /\ UNCHANGED ad_others

AddNext ==
    \/ AddBatchOk \/ AddBatchFail \/ AddItemOk \/ AddItemFail
    \/ AddItemsDone \/ AddReturn

SpecAdd == AddInit /\ [][AddNext]_vars

AddDone == ad_pc \in {"returned", "raised"}
Stored == {ad_store[k] : k \in 1..Len(ad_store)}
\* the item whose one-by-one insert failed
FailedItem == ad_i + ad_j

\* C4: when a call of add_documents is over and exactly one of its items
\* could not be inserted, every other item of the call is stored and the
\* failure is reported.
C4_PartialFailureIsolation ==
    (AddDone /\ Cardinality(ad_bad) = 1) =>
        /\ Stored = (0..(ad_n - 1)) \ ad_bad
        /\ ad_pc = "raised"

\* C5: a call of add_documents ends with an error exactly when an item
\* failed its one-by-one insert; then the collection holds exactly the items
\* that precede the failing item, in input order, the failed insert is the
\* last call made to the collection, and no item after the failing one was
\* inserted one by one.
C5_AbortSemantics ==
    /\ ad_pc = "returned" => ad_bad = {}
    /\ ad_pc = "raised" =>
          /\ FailedItem \in ad_bad
          /\ ad_store = Interval(0, FailedItem - 1)
          /\ ad_log[Len(ad_log)] =
                 [kind |-> "item", lo |-> FailedItem, hi |-> FailedItem, ok |-> FALSE]
          /\ \A k \in 1..Len(ad_log) :
                 ad_log[k].kind = "item" => ad_log[k].lo <= FailedItem

\* the scenario of the specification: 150 items, the one at index 73
\* malformed; the call has aborted at that item
C5_Witness ==
    /\ ad_n = 150 /\ ad_bad = {73} /\ ad_pc = "raised"
    /\ Len(ad_store) = 73

\* the call of collection.add logged at position k of the log
AddCall(k) == ad_log[k]

\* C24: add_documents works through batches of at most 100 items in ascending
\* input order; an item is inserted on its own only after the batch insert
\* holding it has failed, the single inserts of a failed batch run in input
\* order, the next batch is not attempted before the one before it is
\* resolved, and a call that completes has committed every item exactly once
\* and returns the input ids in input order.
C24_BatchThenFallback ==
    /\ \A k \in 1..Len(ad_log) :
          /\ AddCall(k).kind = "batch" =>
                /\ AddCall(k).lo % BatchSize = 0
                /\ AddCall(k).hi = Min(AddCall(k).lo + BatchSize, ad_n) - 1
                /\ AddCall(k).hi - AddCall(k).lo + 1 \in 1..BatchSize
                /\ IF k = 1 THEN AddCall(k).lo = 0
                   ELSE /\ AddCall(k - 1).ok
                        /\ AddCall(k - 1).hi = AddCall(k).lo - 1
          /\ AddCall(k).kind = "item" =>
                /\ k > 1
                /\ AddCall(k).hi = AddCall(k).lo
                /\ \/ /\ AddCall(k - 1).kind = "batch"
                      /\ ~AddCall(k - 1).ok
                      /\ AddCall(k - 1).lo = AddCall(k).lo
                   \/ /\ AddCall(k - 1).kind = "item"
                      /\ AddCall(k - 1).ok
                      /\ AddCall(k - 1).lo = AddCall(k).lo - 1
                      /\ AddCall(k).lo % BatchSize # 0
          /\ (k < Len(ad_log) /\ ~AddCall(k).ok) =>
                /\ AddCall(k).kind = "batch"
                /\ AddCall(k + 1).kind = "item"
    /\ ad_pc = "returned" =>
          /\ ad_store = Interval(0, ad_n - 1)
          /\ ad_all_ids = Interval(0, ad_n - 1)

\* a completed call of more than one batch whose first batch insert failed:
\* its items went in one by one before the second batch was attempted
C24_Witness ==
    /\ ad_pc = "returned"
    /\ ad_n > BatchSize
    /\ ~AddCall(1).ok
    /\ Len(ad_log) = 1 + BatchSize + 1
    /\ AddCall(Len(ad_log)) =
          [kind |-> "batch", lo |-> BatchSize, hi |-> ad_n - 1, ok |-> TRUE]

(***************************************************************************)
(* RAGPipeline.get_document_context.                                       *)
(* A string is the sequence of its characters.                             *)
(***************************************************************************)
MinRemainingSpace == 100    \* the least space worth a truncated item
MaxDocs == 3                \* the longest result list

Chars(n, c) == [k \in 1..n |-> c]
Ellipsis == <<".", ".", ".">>
Newline == <<"\n">>
SourceNames == {<<"a">>, <<"d", "o", "c">>}
TextLengths == {0, 60, 101, 150}
ContextLimits == {0, 100, 200, 300}

ContextDocs ==
    UNION {[1..n -> [source : SourceNames, text : {Chars(m, "x") : m \in TextLengths}]]
               : n \in 0..MaxDocs}

\* a slip that cuts the text and leaves the ellipsis out
TruncatedWithoutEllipsis(text, remaining_space) ==
    SubSeq(text, 1, Min(remaining_space, Len(text)))

\* text[:remaining_space] + "..."
Truncated(text, remaining_space) ==
    SubSeq(text, 1, Min(remaining_space, Len(text))) \o Ellipsis

\* f"[Source: {source}]\n{text}\n"
FormatPart(source, text) ==
    <<"[", "S", "o", "u", "r", "c", "e", ":", " ">> \o source \o <<"]">>
        \o Newline \o text \o Newline

\* "\n".join(context_parts)
RECURSIVE JoinLines(_)
JoinLines(parts) ==
    IF parts = <<>> THEN <<>>
    ELSE IF Len(parts) = 1 THEN parts[1]
    ELSE parts[1] \o Newline \o JoinLines(Tail(parts))

\* list(references): the members of the set, each once, in an order the
\* interpreter picks
ListOfSet(S) ==
    {l \in [1..Cardinality(S) -> S] : \A x \in S : \E i \in DOMAIN l : l[i] = x}

ContextInit ==
    /\ ChunkIdle /\ AddIdle /\ PreprocessIdle /\ FallbackIdle /\ RankIdle
    /\ IndexIdle /\ EmbedIdle /\ SheetsIdle
    /\ HeaderIdle
    /\ ConcurrentIdle
    /\ cx_docs \in ContextDocs
    /\ cx_max \in ContextLimits
    /\ cx_i = 1
    /\ cx_parts = <<>>
    /\ cx_refs = {}
    /\ cx_total = 0
    /\ cx_context = <<>>
    /\ cx_sources = <<>>
    /\ cx_pc = "loop"

\* the document fits the remaining budget: it is added whole
ContextAddWhole ==
    /\ cx_pc = "loop"
    /\ cx_i <= Len(cx_docs)
    /\ LET doc == cx_docs[cx_i]
       IN  /\ ~(cx_total + Len(doc.text) > cx_max)
           /\ cx_parts' = Append(cx_parts, FormatPart(doc.source, doc.text))
           /\ cx_refs' = cx_refs \cup {doc.source}
           /\ cx_total' = cx_total + Len(doc.text)
    /\ cx_i' = cx_i + 1
    /\ UNCHANGED <<cx_docs, cx_max, cx_context, cx_sources, cx_pc>>
    /\ UNCHANGED cx_others

\* the document does not fit and more than 100 characters remain: it is
\* added truncated, with an ellipsis
ContextAddTruncated ==
    /\ cx_pc = "loop"
    /\ cx_i <= Len(cx_docs)
    /\ LET doc == cx_docs[cx_i]
           remaining_space == cx_max - cx_total
           text == Truncated(doc.text, remaining_space)
       IN  /\ cx_total + Len(doc.text) > cx_max
           /\ remaining_space > MinRemainingSpace
           /\ cx_parts' = Append(cx_parts, FormatPart(doc.source, text))
           /\ cx_refs' = cx_refs \cup {doc.source}
           /\ cx_total' = cx_total + Len(text)
    /\ cx_i' = cx_i + 1
    /\ UNCHANGED <<cx_docs, cx_max, cx_context, cx_sources, cx_pc>>
    /\ UNCHANGED cx_others

\* the document does not fit and too little space remains: break
ContextBreak ==
    /\ cx_pc = "loop"
    /\ cx_i <= Len(cx_docs)
    /\ cx_total + Len(cx_docs[cx_i].text) > cx_max
    /\ ~(cx_max - cx_total > MinRemainingSpace)
    /\ cx_pc' = "joining"
    /\ UNCHANGED <<cx_docs, cx_max, cx_i, cx_parts, cx_refs, cx_total, cx_context,
                   cx_sources>>
    /\ UNCHANGED cx_others

\* after the loop: join the parts, list the references and return
ContextReturn ==
    /\ \/ cx_pc = "joining"
       \/ cx_pc = "loop" /\ cx_i > Len(cx_docs)
    /\ cx_context' = JoinLines(cx_parts)
    /\ cx_sources' \in ListOfSet(cx_refs)
    /\ cx_pc' = "returned"
    /\ UNCHANGED <<cx_docs, cx_max, cx_i, cx_parts, cx_refs, cx_total>>
    /\ UNCHANGED cx_others

ContextNext ==
    ContextAddWhole \/ ContextAddTruncated \/ ContextBreak \/ ContextReturn

SpecContext == ContextInit /\ [][ContextNext]_vars

\* the characters a part holds besides its text: '[Source: ', the source,
\* ']', and the two newlines
HeaderOverhead(source) == Len(FormatPart(source, <<>>))

\* C6: the returned context string is no longer than max_context_length
\* plus one ellipsis plus the header overhead of the last included item.
C6_ContextBudget ==
    cx_pc = "returned" =>
        Len(cx_context) <=
            cx_max + Len(Ellipsis)
            + (IF cx_parts = <<>> THEN 0
               ELSE HeaderOverhead(cx_docs[Len(cx_parts)].source))

\* the part of a document cut to its first r characters
CutPart(doc, r) == FormatPart(doc.source, SubSeq(doc.text, 1, r) \o Ellipsis)

\* C25: get_document_context includes a prefix of the results in ranked
\* order; only the last included item may be truncated, and it then ends
\* with an ellipsis; nothing is included after an item that was truncated or
\* left out; the source list returned holds the distinct sources of the
\* included items, each once.
C25_RankedPrefix ==
    cx_pc = "returned" =>
        /\ Len(cx_parts) <= Len(cx_docs)
        /\ \A i \in 1..Len(cx_parts) :
              \/ cx_parts[i] = FormatPart(cx_docs[i].source, cx_docs[i].text)
              \/ /\ i = Len(cx_parts)
                 /\ \E r \in 0..(Len(cx_docs[i].text) - 1) :
                        cx_parts[i] = CutPart(cx_docs[i], r)
        /\ {cx_sources[i] : i \in 1..Len(cx_sources)}
              = {cx_docs[i].source : i \in 1..Len(cx_parts)}
        /\ \A i, j \in 1..Len(cx_sources) : cx_sources[i] = cx_sources[j] => i = j

\* a call that included two whole items of one source and a third, of
\* another source, truncated, and left nothing out
C25_TruncatedLastWitness ==
    /\ cx_pc = "returned"
    /\ Len(cx_parts) = 3
    /\ cx_docs[1].source = cx_docs[2].source
    /\ cx_docs[3].source # cx_docs[1].source
    /\ cx_parts[3] # FormatPart(cx_docs[3].source, cx_docs[3].text)
    /\ Len(cx_sources) = 2

(***************************************************************************)
(* DocumentProcessor.preprocess_dataframe and                              *)
(* CSVExcelHandler.preprocess_sheet.                                       *)
(* A table is [columns |-> the labels, rows |-> the rows, each a sequence  *)
(* of cells in column order].  A label or a cell is a string, the sequence *)
(* of its characters; NaN is the missing cell.                             *)
(***************************************************************************)
MaxIterations == 10     \* max_iterations of preprocess_dataframe
MaxTableRows == 3       \* rows of the raw table

NaN == <<"NaN">>
Blank == <<" ">>
Unnamed == <<"U", "n", "n", "a", "m", "e", "d">>

\* f'Unnamed: {i}'
UnnamedLabel(i) ==
    Unnamed \o <<":", " ">> \o <<(<<"0", "1", "2", "3">>)[i + 1]>>

\* str(val)
Str(val) == IF val = NaN THEN <<"n", "a", "n">> ELSE val

RECURSIVE LStrip(_)
LStrip(s) == IF s # <<>> /\ Head(s) = " " THEN LStrip(Tail(s)) ELSE s

RECURSIVE RStrip(_)
RStrip(s) ==
    IF s # <<>> /\ s[Len(s)] = " " THEN RStrip(SubSeq(s, 1, Len(s) - 1)) ELSE s

\* s.strip()
Strip(s) == RStrip(LStrip(s))

\* s.isspace()
IsSpace(s) == s # <<>> /\ \A k \in 1..Len(s) : s[k] = " "

\* s.startswith(prefix)
StartsWith(s, prefix) ==
    Len(s) >= Len(prefix) /\ SubSeq(s, 1, Len(prefix)) = prefix

\* pd.isna(x) or str(x).strip() == ''
IsEmptyCell(x) == x = NaN \/ Strip(Str(x)) = <<>>

RECURSIVE SelectSeq2(_, _)
\* the elements of s at the positions of keep, in order
SelectSeq2(s, keep) ==
    IF s = <<>> THEN <<>>
    ELSE (IF Len(s) \in keep THEN SelectSeq2(SubSeq(s, 1, Len(s) - 1), keep) \o <<s[Len(s)]>>
          ELSE SelectSeq2(SubSeq(s, 1, Len(s) - 1), keep))

\* df.empty
IsEmptyDf(df) == df.rows = <<>> \/ df.columns = <<>>

\* df[~df.apply(lambda row: all(pd.isna(val) or str(val).strip() == '' ...))]
DropEmptyRows(df) ==
    [df EXCEPT !.rows =
        SelectSeq2(df.rows,
                   {r \in 1..Len(df.rows) :
                        ~(\A c \in 1..Len(df.rows[r]) : IsEmptyCell(df.rows[r][c]))})]

count_valid(df, c) == Cardinality({r \in 1..Len(df.rows) : ~IsEmptyCell(df.rows[r][c])})
count_invalid(df, c) == Cardinality({r \in 1..Len(df.rows) : IsEmptyCell(df.rows[r][c])})

\* cols_to_keep: the positions of the columns with more valid than invalid cells
ColsToKeep(df) ==
    {c \in 1..Len(df.columns) : count_valid(df, c) > count_invalid(df, c)}

\* df[cols_to_keep]
Project(df, keep) ==
    [columns |-> SelectSeq2(df.columns, keep),
     rows |-> [r \in 1..Len(df.rows) |-> SelectSeq2(df.rows[r], keep)]]

\* any(str(col).startswith('Unnamed') or str(col).isspace() or str(col) == '' ...)
NeedsHeader(columns) ==
    \E c \in 1..Len(columns) :
        StartsWith(columns[c], Unnamed) \/ IsSpace(columns[c]) \/ columns[c] = <<>>

\* new_columns, from df.iloc[0]
NewColumns(row) ==
    [c \in 1..Len(row) |->
        IF row[c] = NaN \/ IsSpace(Str(row[c])) \/ Str(row[c]) = <<>>
        THEN UnnamedLabel(c - 1)
        ELSE Strip(Str(row[c]))]

RECURSIVE HeaderLoopDf(_, _)
\* the header loop of preprocess_dataframe: at most max_iterations rounds,
\* and the last remaining row is promoted but not removed
HeaderLoopDf(df, iteration) ==
    IF Len(df.rows) > 0 /\ iteration < MaxIterations /\ NeedsHeader(df.columns)
    THEN LET promoted == [df EXCEPT !.columns = NewColumns(df.rows[1])]
         IN  IF Len(df.rows) > 1
             THEN HeaderLoopDf([promoted EXCEPT !.rows = Tail(df.rows)], iteration + 1)
             ELSE promoted
    ELSE df

RECURSIVE HeaderLoopSheet(_)
\* the header loop of preprocess_sheet: no bound, the promoted row always goes
HeaderLoopSheet(df) ==
    IF Len(df.rows) > 0 /\ NeedsHeader(df.columns)
    THEN HeaderLoopSheet([columns |-> NewColumns(df.rows[1]), rows |-> Tail(df.rows)])
    ELSE df

\* all(str(row[col]).strip() == str(col).strip() for col in df.columns)
IsHeaderEcho(row, columns) ==
    \A c \in 1..Len(columns) : Strip(Str(row[c])) = Strip(columns[c])

DropHeaderEchoes(df) ==
    [df EXCEPT !.rows =
        SelectSeq2(df.rows,
                   {r \in 1..Len(df.rows) : ~IsHeaderEcho(df.rows[r], df.columns)})]

\* DocumentProcessor.preprocess_dataframe
preprocess_dataframe(df) ==
    LET d1 == DropEmptyRows(df)
        keep == ColsToKeep(d1)
        d2 == HeaderLoopDf(Project(d1, keep), 0)
    IN  IF IsEmptyDf(d1) THEN d1
        ELSE IF keep = {} THEN EmptyTable
        ELSE IF IsEmptyDf(d2) THEN d2
        ELSE DropHeaderEchoes(d2)

\* CSVExcelHandler.preprocess_sheet
preprocess_sheet(df) ==
    LET d1 == DropEmptyRows(df)
        d2 == HeaderLoopSheet(Project(d1, ColsToKeep(d1)))
    IN  DropHeaderEchoes(d2)

Preprocess(sheet, df) ==
    IF sheet THEN preprocess_sheet(df) ELSE preprocess_dataframe(df)

\* the raw tables: two columns, labelled as a parser labels them (a name, a
\* positional placeholder, or a blank kept from the file), and cells that
\* are missing, blank, a value, or the text of a label
RawLabels ==
    {<<l0, l1>> : l0 \in {<<"A">>, UnnamedLabel(0)},
                  l1 \in {<<"B">>, UnnamedLabel(1), Blank}}
RawRow ==
    {<<c0, c1>> : c0 \in {NaN, Blank, <<"a">>, <<"A">>},
                  c1 \in {NaN, Blank, <<"b", " ">>, <<"B">>}}
RawTables ==
    UNION {[columns : RawLabels, rows : [1..n -> RawRow]] : n \in 0..MaxTableRows}

PreprocessInit ==
    /\ ChunkIdle /\ AddIdle /\ ContextIdle /\ FallbackIdle /\ RankIdle
    /\ IndexIdle /\ EmbedIdle /\ SheetsIdle
    /\ HeaderIdle
    /\ ConcurrentIdle
    /\ pp_sheet \in BOOLEAN
    /\ pp_raw \in RawTables
    /\ pp_once = EmptyTable
    /\ pp_twice = EmptyTable
    /\ pp_pc = "raw"

\* the table is preprocessed, as on load or ingestion
PreprocessOnce ==
    /\ pp_pc = "raw"
    /\ pp_once' = Preprocess(pp_sheet, pp_raw)
    /\ pp_pc' = "once"
    /\ UNCHANGED <<pp_sheet, pp_raw, pp_twice>>
    /\ UNCHANGED pp_others

\* the preprocessed table is preprocessed again
PreprocessAgain ==
    /\ pp_pc = "once"
    /\ pp_twice' = Preprocess(pp_sheet, pp_once)
    /\ pp_pc' = "twice"
    /\ UNCHANGED <<pp_sheet, pp_raw, pp_once>>
    /\ UNCHANGED pp_others

PreprocessNext == PreprocessOnce \/ PreprocessAgain

SpecPreprocess == PreprocessInit /\ [][PreprocessNext]_vars

\* C7: preprocessing a preprocessed table changes nothing: same labels,
\* same rows.
C7_PreprocessIdempotent == pp_pc = "twice" => pp_twice = pp_once

\* C8: in a preprocessed table no column has more empty cells than
\* non-empty cells.
C8_NoSparseColumn ==
    pp_pc = "once" =>
        \A c \in 1..Len(pp_once.columns) :
            count_invalid(pp_once, c) <= count_valid(pp_once, c)

\* C9: a preprocessed table has no row whose cells are all empty and no row
\* whose every trimmed cell equals the label of its column.
C9_NoEmptyOrEchoRow ==
    pp_pc = "once" =>
        \A r \in 1..Len(pp_once.rows) :
            /\ ~(\A c \in 1..Len(pp_once.rows[r]) : IsEmptyCell(pp_once.rows[r][c]))
            /\ ~IsHeaderEcho(pp_once.rows[r], pp_once.columns)

(***************************************************************************)
(* The header loop of preprocess_dataframe and preprocess_sheet, one       *)
(* iteration at a time.  The loop starts from the table left by the two    *)
(* steps before it: the empty rows and the sparse columns are gone.        *)
(***************************************************************************)
MaxHeaderRows == 11     \* rows of the one-column tables

\* one-column tables whose cells are a value or the text of a positional
\* placeholder, as a file written with an unnamed index column holds it
LongTables ==
    UNION {[columns : {<<(<<"A">>)>>, <<UnnamedLabel(0)>>},
            rows : [1..n -> {<<(<<"a">>)>>, <<UnnamedLabel(0)>>}]]
               : n \in 0..MaxHeaderRows}

HeaderTables == LongTables \cup RawTables

\* df when the loop is reached
HeaderLoopInput(raw) == Project(DropEmptyRows(raw), ColsToKeep(DropEmptyRows(raw)))

\* preprocess_dataframe returns before the loop when no row or no column is
\* left; preprocess_sheet always reaches it
ReachesLoop(sheet, raw) ==
    sheet \/ (~IsEmptyDf(DropEmptyRows(raw)) /\ ColsToKeep(DropEmptyRows(raw)) # {})

HeaderInit ==
    /\ ChunkIdle /\ AddIdle /\ ContextIdle /\ PreprocessIdle /\ FallbackIdle
    /\ RankIdle /\ IndexIdle /\ EmbedIdle /\ SheetsIdle
    /\ ConcurrentIdle
    /\ hd_sheet \in BOOLEAN
    /\ \E raw \in HeaderTables :
          /\ ReachesLoop(hd_sheet, raw)
          /\ hd_in = HeaderLoopInput(raw)
    /\ hd_df = hd_in
    /\ hd_iteration = 0
    /\ hd_promotions = 0
    /\ hd_pc = "loop"

\* preprocess_dataframe, an iteration with several rows left: the first row
\* becomes the labels and is removed
HeaderPromote ==
    /\ hd_pc = "loop" /\ ~hd_sheet
    /\ Len(hd_df.rows) > 0 /\ hd_iteration < MaxIterations
    /\ NeedsHeader(hd_df.columns)
    /\ Len(hd_df.rows) > 1
    /\ hd_df' = [columns |-> NewColumns(hd_df.rows[1]), rows |-> Tail(hd_df.rows)]
    /\ hd_iteration' = hd_iteration + 1
    /\ hd_promotions' = hd_promotions + 1
    /\ UNCHANGED <<hd_sheet, hd_in, hd_pc>>
    /\ UNCHANGED hd_others

\* preprocess_dataframe, an iteration with one row left: the row becomes the
\* labels, stays in the data, and the loop is left
HeaderPromoteLast ==
    /\ hd_pc = "loop" /\ ~hd_sheet
    /\ Len(hd_df.rows) > 0 /\ hd_iteration < MaxIterations
    /\ NeedsHeader(hd_df.columns)
    /\ ~(Len(hd_df.rows) > 1)
    /\ hd_df' = [hd_df EXCEPT !.columns = NewColumns(hd_df.rows[1])]
    /\ hd_iteration' = hd_iteration + 1
    /\ hd_promotions' = hd_promotions + 1
    /\ hd_pc' = "exit"
    /\ UNCHANGED <<hd_sheet, hd_in>>
    /\ UNCHANGED hd_others

\* preprocess_dataframe: the while condition fails, or the labels are fine
HeaderExit ==
    /\ hd_pc = "loop" /\ ~hd_sheet
    /\ \/ /\ ~(Len(hd_df.rows) > 0 /\ hd_iteration < MaxIterations)
          /\ hd_iteration' = hd_iteration
       \/ /\ Len(hd_df.rows) > 0 /\ hd_iteration < MaxIterations
          /\ ~NeedsHeader(hd_df.columns)
          /\ hd_iteration' = hd_iteration + 1
    /\ hd_pc' = "exit"
    /\ UNCHANGED <<hd_sheet, hd_in, hd_df, hd_promotions>>
    /\ UNCHANGED hd_others

\* preprocess_sheet, an iteration: the first row becomes the labels and is
\* removed
SheetPromote ==
    /\ hd_pc = "loop" /\ hd_sheet
    /\ Len(hd_df.rows) > 0
    /\ NeedsHeader(hd_df.columns)
    /\ hd_df' = [columns |-> NewColumns(hd_df.rows[1]), rows |-> Tail(hd_df.rows)]
    /\ hd_promotions' = hd_promotions + 1
    /\ UNCHANGED <<hd_sheet, hd_in, hd_iteration, hd_pc>>
    /\ UNCHANGED hd_others

\* preprocess_sheet: no row is left, or the labels are fine
SheetExit ==
    /\ hd_pc = "loop" /\ hd_sheet
    /\ ~(Len(hd_df.rows) > 0 /\ NeedsHeader(hd_df.columns))
    /\ hd_pc' = "exit"
    /\ UNCHANGED <<hd_sheet, hd_in, hd_df, hd_iteration, hd_promotions>>
    /\ UNCHANGED hd_others

HeaderNext ==
    HeaderPromote \/ HeaderPromoteLast \/ HeaderExit \/ SheetPromote \/ SheetExit

SpecHeader == HeaderInit /\ [][HeaderNext]_vars

\* the loop gives what the functions compute in one piece
HeaderLoopAgrees ==
    hd_pc = "exit" =>
        hd_df = (IF hd_sheet THEN HeaderLoopSheet(hd_in) ELSE HeaderLoopDf(hd_in, 0))

\* C23: the header loop makes at most 10 promotions in preprocess_dataframe
\* and ends in preprocess_sheet; every promotion makes the first remaining
\* row the column labels and removes that row from the data, also when it is
\* the last one; when the loop is left the labels are all well-formed, or no
\* row remains, or the iteration bound was reached.
C23_HeaderRepairLoop ==
    /\ [](/\ ~hd_sheet => hd_promotions <= MaxIterations
          /\ hd_promotions <= Len(hd_in.rows)
          /\ hd_pc = "exit" =>
                \/ ~NeedsHeader(hd_df.columns)
                \/ hd_df.rows = <<>>
                \/ ~hd_sheet /\ hd_iteration = MaxIterations)
    /\ [][hd_promotions' = hd_promotions + 1 =>
             /\ hd_df'.columns = NewColumns(hd_df.rows[1])
             /\ hd_df'.rows = Tail(hd_df.rows)]_vars

(***************************************************************************)
(* _query_with_csv_context: the structured-query fallback.                 *)
(* A handler is the sequence of its sheets in insertion order; a sheet is  *)
(* [score |-> calculate_sheet_relevance(query, sheet), in hundredths,      *)
(* empty |-> whether its table is empty].  A candidate names its sheet by  *)
(* the position of the handler in loaded_files and of the sheet in dfs.    *)
(***************************************************************************)
MaxFiles == 2           \* handlers in loaded_files
MaxSheets == 2          \* sheets of an Excel handler

Scores == {15, 40}

\* what load_and_preprocess_data leaves in dfs: the one sheet of a CSV file,
\* empty or not, or the non-empty sheets of an Excel file
CsvHandlers == {<<sh>> : sh \in [score : Scores, empty : BOOLEAN]}
ExcelHandlers == UNION {[1..n -> [score : Scores, empty : {FALSE}]] : n \in 1..MaxSheets}
LoadedFiles == UNION {[1..n -> CsvHandlers \cup ExcelHandlers] : n \in 0..MaxFiles}

\* what the agent may put out, as str() renders it
AgentOutputs ==
    { <<>>,
      <<" ">>,
      <<" ", "4", "2", " ">>,
      <<"E", "r", "r", "o", "r">>,
      <<"N", "o", "t", " ", "F", "o", "u", "n", "d">>,
      <<"n", "o", " ", "r", "e", "l", "e", "v", "a", "n", "t">> }
\* str(e) of an exception raised by the agent
AgentException == <<"b", "o", "o", "m">>

LowerChar(c) ==
    CASE c = "E" -> "e" [] c = "N" -> "n" [] c = "F" -> "f" [] OTHER -> c

\* s.lower()
Lower(s) == [k \in 1..Len(s) |-> LowerChar(s[k])]

\* sub in s
Contains(s, sub) ==
    \E k \in 0..(Len(s) - Len(sub)) : SubSeq(s, k + 1, k + Len(sub)) = sub

Denylist ==
    { <<"e", "r", "r", "o", "r">>,
      <<"n", "o", "t", " ", "f", "o", "u", "n", "d">>,
      <<"n", "o", " ", "r", "e", "l", "e", "v", "a", "n", "t">> }

\* a slip that compares without lower()
IsConclusiveCaseSensitive(response_text) ==
    response_text # <<>> /\ \A d \in Denylist : ~Contains(response_text, d)

\* the test that accepts a response
IsConclusive(response_text) ==
    response_text # <<>> /\ \A d \in Denylist : ~Contains(Lower(response_text), d)

RECURSIVE InsertDesc(_, _)
\* x put into the descending sequence s behind every element not below it
InsertDesc(s, x) ==
    IF s = <<>> THEN <<x>>
    ELSE IF Head(s).relevance >= x.relevance THEN <<Head(s)>> \o InsertDesc(Tail(s), x)
    ELSE <<x>> \o s

RECURSIVE SortedDesc(_)
\* sorted(..., key=relevance, reverse=True): descending, stable
SortedDesc(s) ==
    IF s = <<>> THEN <<>>
    ELSE InsertDesc(SortedDesc(SubSeq(s, 1, Len(s) - 1)), s[Len(s)])

\* a slip that leaves the sort out
find_most_relevant_sheets_unsorted(files, f, top_n) ==
    LET all == [sh \in 1..Len(files[f]) |->
                   [source |-> f, sheet |-> sh, relevance |-> files[f][sh].score]]
    IN  IF Len(files[f]) = 1 THEN all
        ELSE SubSeq(all, 1, Min(top_n, Len(all)))

\* handler.find_most_relevant_sheets(query, top_n), as candidates of file f
find_most_relevant_sheets(files, f, top_n) ==
    LET all == [sh \in 1..Len(files[f]) |->
                   [source |-> f, sheet |-> sh, relevance |-> files[f][sh].score]]
    IN  IF Len(files[f]) = 1 THEN all
        ELSE SubSeq(SortedDesc(all), 1, Min(top_n, Len(all)))

RECURSIVE CollectSheets(_, _)
\* the loop that fills sheets_to_try from the handlers 1..f
CollectSheets(files, f) ==
    IF f = 0 THEN <<>>
    ELSE CollectSheets(files, f - 1)
             \o find_most_relevant_sheets(files, f, Len(files[f]))

\* sheets_to_try after sheets_to_try.sort(key=relevance, reverse=True)
SheetsToTry(files) == SortedDesc(CollectSheets(files, Len(files)))

\* detail of the HTTPException raised when sheets_to_try is empty
NoDataMessage ==
    << "N", "o", " ", "C", "S", "V", "/", "E", "x", "c", "e", "l", " ",
       "d", "a", "t", "a", " ", "a", "v", "a", "i", "l", "a", "b", "l",
       "e" >>

UnanswerableMessage ==
    << "C", "o", "u", "l", "d", " ", "n", "o", "t", " ", "f", "i", "n",
       "d", " ", "r", "e", "l", "e", "v", "a", "n", "t", " ", "d", "a",
       "t", "a", " ", "t", "o", " ", "a", "n", "s", "w", "e", "r", " ",
       "y", "o", "u", "r", " ", "q", "u", "e", "s", "t", "i", "o", "n",
       "." >>

LastErrorPrefix ==
    << " ", "L", "a", "s", "t", " ", "e", "r", "r", "o", "r", ":",
       " " >>

\* a slip that leaves the last error out of the message
ErrorMessageWithoutLast(last_error) == UnanswerableMessage

\* error_msg once every candidate has been passed: "if last_error:" is false
\* of None and of the empty string
ErrorMessage(last_error) ==
    IF last_error # None /\ last_error # <<>>
    THEN UnanswerableMessage \o LastErrorPrefix \o last_error
    ELSE UnanswerableMessage

FallbackInit ==
    /\ ChunkIdle /\ AddIdle /\ ContextIdle /\ PreprocessIdle /\ RankIdle
    /\ IndexIdle /\ EmbedIdle /\ SheetsIdle
    /\ HeaderIdle
    /\ ConcurrentIdle
    /\ fb_files \in LoadedFiles
    /\ fb_sheets = <<>>
    /\ fb_k = 1
    /\ fb_current = [f \in 1..Len(fb_files) |-> 0]
    /\ fb_log = <<>>
    /\ fb_last_error = None
    /\ fb_seen = NothingSeen
    /\ fb_result = NoResult
    /\ fb_pc = "start"

\* the candidates are collected and sorted
FallbackCollect ==
    /\ fb_pc = "start"
    /\ SheetsToTry(fb_files) # <<>>
    /\ fb_sheets' = SheetsToTry(fb_files)
    /\ fb_pc' = "loop"
    /\ UNCHANGED <<fb_files, fb_k, fb_current, fb_log, fb_last_error, fb_seen, fb_result>>
    /\ UNCHANGED fb_others

\* there is no candidate at all: HTTP 400, "No CSV/Excel data available"
FallbackNoData ==
    /\ fb_pc = "start"
    /\ SheetsToTry(fb_files) = <<>>
    /\ fb_result' = [status |-> "error", code |-> 400, detail |-> NoDataMessage]
    /\ fb_pc' = "failed"
    /\ UNCHANGED <<fb_files, fb_sheets, fb_k, fb_current, fb_log, fb_last_error, fb_seen>>
    /\ UNCHANGED fb_others

FallbackCandidate == fb_sheets[fb_k]
FallbackTable == fb_files[FallbackCandidate.source][FallbackCandidate.sheet]
\* handler.switch_sheet(sheet_name)
SwitchSheet == [fb_current EXCEPT ![FallbackCandidate.source] = FallbackCandidate.sheet]

\* the table of the candidate is empty: skipped
FallbackSkipEmpty ==
    /\ fb_pc = "loop"
    /\ fb_k <= Len(fb_sheets)
    /\ FallbackTable.empty
    /\ fb_current' = SwitchSheet
    /\ fb_k' = fb_k + 1
    /\ UNCHANGED <<fb_files, fb_sheets, fb_log, fb_last_error, fb_seen, fb_result, fb_pc>>
    /\ UNCHANGED fb_others

\* the agent answers and the answer is accepted: returned
FallbackAccept ==
    /\ fb_pc = "loop"
    /\ fb_k <= Len(fb_sheets)
    /\ ~FallbackTable.empty
    /\ \E output \in AgentOutputs :
          LET response_text == Strip(output)
          IN  /\ IsConclusive(response_text)
              /\ fb_log' = Append(fb_log, fb_k)
              /\ fb_result' = [status |-> "success", response |-> response_text,
                               references |-> <<FallbackCandidate.source,
                                                FallbackCandidate.sheet>>]
    /\ fb_current' = SwitchSheet
    /\ fb_pc' = "returned"
    /\ UNCHANGED <<fb_files, fb_sheets, fb_k, fb_last_error, fb_seen>>
    /\ UNCHANGED fb_others

\* the agent answers and the answer is not conclusive: next candidate
FallbackInconclusive ==
    /\ fb_pc = "loop"
    /\ fb_k <= Len(fb_sheets)
    /\ ~FallbackTable.empty
    /\ \E output \in AgentOutputs :
          LET response_text == Strip(output)
          IN  /\ ~IsConclusive(response_text)
              /\ fb_log' = Append(fb_log, fb_k)
              /\ fb_last_error' = response_text
              /\ fb_seen' = [response |-> response_text, raised |-> FALSE]
    /\ fb_current' = SwitchSheet
    /\ fb_k' = fb_k + 1
    /\ UNCHANGED <<fb_files, fb_sheets, fb_result, fb_pc>>
    /\ UNCHANGED fb_others

\* the agent raises: next candidate
FallbackAgentRaises ==
    /\ fb_pc = "loop"
    /\ fb_k <= Len(fb_sheets)
    /\ ~FallbackTable.empty
    /\ fb_log' = Append(fb_log, fb_k)
    /\ fb_last_error' = AgentException
    /\ fb_seen' = [fb_seen EXCEPT !.raised = TRUE]
    /\ fb_current' = SwitchSheet
    /\ fb_k' = fb_k + 1
    /\ UNCHANGED <<fb_files, fb_sheets, fb_result, fb_pc>>
    /\ UNCHANGED fb_others

\* no candidate is left: HTTP 400 with the last error
FallbackExhausted ==
    /\ fb_pc = "loop"
    /\ fb_k > Len(fb_sheets)
    /\ fb_result' = [status |-> "error", code |-> 400,
                     detail |-> ErrorMessage(fb_last_error)]
    /\ fb_pc' = "failed"
    /\ UNCHANGED <<fb_files, fb_sheets, fb_k, fb_current, fb_log, fb_last_error, fb_seen>>
    /\ UNCHANGED fb_others

FallbackNext ==
    \/ FallbackCollect \/ FallbackNoData \/ FallbackSkipEmpty \/ FallbackAccept
    \/ FallbackInconclusive \/ FallbackAgentRaises \/ FallbackExhausted

SpecFallback == FallbackInit /\ [][FallbackNext]_vars

\* every sheet of every loaded handler
AllSheets ==
    {p \in (1..Len(fb_files)) \X (1..MaxSheets) : p[2] <= Len(fb_files[p[1]])}

\* the candidates are all the sheets, each once, in descending relevance,
\* equal relevance in handler-then-sheet insertion order
CandidatesRanked ==
    /\ Len(fb_sheets) = Cardinality(AllSheets)
    /\ {<<fb_sheets[k].source, fb_sheets[k].sheet>> : k \in 1..Len(fb_sheets)} = AllSheets
    /\ \A k \in 1..Len(fb_sheets) :
          fb_sheets[k].relevance = fb_files[fb_sheets[k].source][fb_sheets[k].sheet].score
    /\ \A i, j \in 1..Len(fb_sheets) :
          i < j =>
              \/ fb_sheets[i].relevance > fb_sheets[j].relevance
              \/ /\ fb_sheets[i].relevance = fb_sheets[j].relevance
                 /\ \/ fb_sheets[i].source < fb_sheets[j].source
                    \/ /\ fb_sheets[i].source = fb_sheets[j].source
                       /\ fb_sheets[i].sheet < fb_sheets[j].sheet

\* the acceptance rule as the claim words it
Acceptable(response) ==
    /\ response # <<>>
    /\ \A d \in Denylist : ~Contains(Lower(response), d)

\* the agent has been invoked for exactly the non-empty candidates passed so
\* far, one after the other in ranked order
InvokedInOrder ==
    LET passed == IF fb_pc = "returned" THEN fb_k ELSE fb_k - 1
    IN  /\ {fb_log[i] : i \in 1..Len(fb_log)} =
               {k \in 1..Min(passed, Len(fb_sheets)) :
                    ~fb_files[fb_sheets[k].source][fb_sheets[k].sheet].empty}
        /\ \A i, j \in 1..Len(fb_log) : i < j => fb_log[i] < fb_log[j]

\* C10: the fallback tries the candidates one at a time in descending
\* relevance (ties in handler-then-sheet insertion order), never invokes the
\* agent for an empty table, passes on from a candidate only when its
\* response was not acceptable (or the agent raised), and returns the first
\* acceptable response, with the reference of the candidate that gave it;
\* nothing ranked after that candidate is invoked.
C10_FallbackShortCircuit ==
    /\ [](fb_pc # "start" => CandidatesRanked /\ InvokedInOrder)
    /\ [](fb_pc = "returned" =>
             /\ Acceptable(fb_result.response)
             /\ fb_log # <<>> /\ fb_log[Len(fb_log)] = fb_k
             /\ fb_result.references = <<fb_sheets[fb_k].source, fb_sheets[fb_k].sheet>>)
    /\ [][(fb_pc = "loop" /\ fb_log' # fb_log /\ fb_pc' = "loop") =>
             (fb_last_error' = AgentException \/ ~Acceptable(fb_last_error'))]_vars

\* an answer accepted from the third candidate, after an empty table was
\* skipped and another candidate was inconclusive, with two candidates of
\* equal relevance in different handlers
C10_Witness ==
    /\ fb_pc = "returned"
    /\ fb_k = 3 /\ Len(fb_log) = 2
    /\ \E i, j \in 1..Len(fb_sheets) :
          /\ fb_sheets[i].source # fb_sheets[j].source
          /\ fb_sheets[i].relevance = fb_sheets[j].relevance

\* the loop has passed every candidate, each once
EveryCandidateAttemptedOnce ==
    /\ fb_k = Len(fb_sheets) + 1
    /\ InvokedInOrder
    /\ \A f \in 1..Len(fb_files) : fb_current[f] # 0

\* what the candidate the agent was invoked for last has given: the text of
\* its exception, or its response (None: the agent was never invoked)
LastOutcome == IF fb_seen.raised THEN AgentException ELSE fb_seen.response

\* C11 as worded: when no candidate gives an accepted response the fallback
\* fails with HTTP 400, the message carries the last inconclusive response,
\* no success is returned, and every candidate has been attempted once.
C11_ExhaustionCarriesLastResponse ==
    (fb_pc = "failed" /\ fb_sheets # <<>>) =>
        /\ fb_result.status = "error" /\ fb_result.code = 400
        /\ fb_seen.response # None => Contains(fb_result.detail, fb_seen.response)
        /\ EveryCandidateAttemptedOnce

\* C11, amended: when no candidate gives an accepted response the fallback
\* fails with HTTP 400 and no success is returned; every candidate has been
\* attempted once; the message ends with last_error, which is what the
\* candidate invoked last gave (its inconclusive response or, when the agent
\* raised, the text of the exception, which replaces an earlier response),
\* and carries nothing when that is empty or no candidate was invoked.
C11_ExhaustionCarriesLastError ==
    (fb_pc = "failed" /\ fb_sheets # <<>>) =>
        /\ fb_result.status = "error" /\ fb_result.code = 400
        /\ fb_result.detail =
               IF LastOutcome \in {None, <<>>} THEN UnanswerableMessage
               ELSE UnanswerableMessage \o LastErrorPrefix \o LastOutcome
        /\ (fb_log = <<>>) = (fb_seen = NothingSeen)
        /\ EveryCandidateAttemptedOnce

\* the fallback has failed after an inconclusive response was followed by a
\* candidate for which the agent raised
C11_Witness ==
    /\ fb_pc = "failed"
    /\ Len(fb_log) >= 2
    /\ fb_seen.raised
    /\ fb_seen.response = <<"N", "o", "t", " ", "F", "o", "u", "n", "d">>
    /\ fb_result.detail = UnanswerableMessage \o LastErrorPrefix \o AgentException

(***************************************************************************)
(* CSVExcelHandler.find_most_relevant_sheets, called on its own.           *)
(***************************************************************************)
MaxRankSheets == 4      \* sheets of the handler

RankScores == {0, 15, 40}
TopNs == 0..(MaxRankSheets + 1)

RankHandlers ==
    UNION {[1..n -> [score : RankScores, empty : {FALSE}]] : n \in 0..MaxRankSheets}

\* the sheets the dict comprehension calls calculate_sheet_relevance for
ScoredSheets(dfs) == IF Len(dfs) = 1 THEN <<>> ELSE [k \in 1..Len(dfs) |-> k]

RankInit ==
    /\ ChunkIdle /\ AddIdle /\ ContextIdle /\ PreprocessIdle
    /\ FallbackIdle /\ IndexIdle /\ EmbedIdle /\ SheetsIdle
    /\ HeaderIdle
    /\ ConcurrentIdle
    /\ rk_dfs \in RankHandlers
    /\ rk_top_n \in TopNs
    /\ rk_scored = <<>>
    /\ rk_result = <<>>
    /\ rk_pc = "called"

\* find_most_relevant_sheets(query, top_n)
RankSheets ==
    /\ rk_pc = "called"
    /\ rk_scored' = ScoredSheets(rk_dfs)
    /\ rk_result' =
          LET found == find_most_relevant_sheets(<<rk_dfs>>, 1, rk_top_n)
          IN  [k \in 1..Len(found) |-> found[k].sheet]
    /\ rk_pc' = "returned"
    /\ UNCHANGED <<rk_dfs, rk_top_n>>
    /\ UNCHANGED rk_others

RankNext == RankSheets

SpecRank == RankInit /\ [][RankNext]_vars

\* C12: find_most_relevant_sheets returns the single sheet, without scoring,
\* when the handler has exactly one sheet; otherwise it scores every sheet and
\* returns min(top_n, number of sheets) distinct sheet names in non-increasing
\* score order, sheets of equal score in insertion order, and no omitted
\* sheet has a higher score than a returned one.
C12_RankOrdering ==
    rk_pc = "returned" =>
        IF Len(rk_dfs) = 1
        THEN rk_result = <<1>> /\ rk_scored = <<>>
        ELSE /\ {rk_scored[k] : k \in 1..Len(rk_scored)} = 1..Len(rk_dfs)
             /\ Len(rk_result) = Min(rk_top_n, Len(rk_dfs))
             /\ \A i \in 1..Len(rk_result) : rk_result[i] \in 1..Len(rk_dfs)
             /\ \A i, j \in 1..Len(rk_result) : i < j =>
                    \/ rk_dfs[rk_result[i]].score > rk_dfs[rk_result[j]].score
                    \/ /\ rk_dfs[rk_result[i]].score = rk_dfs[rk_result[j]].score
                       /\ rk_result[i] < rk_result[j]
             /\ \A o \in 1..Len(rk_dfs) :
                    o \notin {rk_result[i] : i \in 1..Len(rk_result)} =>
                        \A i \in 1..Len(rk_result) :
                            rk_dfs[o].score <= rk_dfs[rk_result[i]].score

\* two of four sheets returned: the later-inserted sheet of the highest score
\* first, then the earlier of two sheets of equal score, the other omitted
C12_Witness ==
    /\ rk_pc = "returned"
    /\ Len(rk_dfs) = 4 /\ rk_top_n = 2
    /\ rk_result = <<3, 2>>
    /\ rk_dfs[2].score = rk_dfs[4].score

(***************************************************************************)
(* RAGPipeline.retrieve_relevant_documents over VectorStore.search.        *)
(* A metadata is a record that has the keys the chunk carries.  A where    *)
(* clause is the sequence of the items of the dict, each [key, op, value]. *)
(* Distances and similarities are in hundredths.                           *)
(***************************************************************************)
MaxStored == 2          \* chunks in the collection

Distances == {20, 70, 71}
Thresholds == {10, 30, 50}
RetrieveKs == {1}

PdfSource == <<"a">>
CsvSource == <<"c">>
RetrieveMetadatas ==
    { [source |-> PdfSource, source_type |-> "pdf"],
      [source |-> CsvSource, source_type |-> "csv"] }

\* the collections of at most MaxStored chunks, the id of a chunk its
\* position at insertion
Collections(metadatas, dists) ==
    UNION {{[k \in 1..n |-> [id |-> k, metadata |-> f[k].metadata, dist |-> f[k].dist]] :
               f \in [1..n -> [metadata : metadatas, dist : dists]]} :
           n \in 0..MaxStored}

\* filter_sources: the empty set is both None and the empty list
FilterSourceSets == {{}, {PdfSource}, {PdfSource, CsvSource}}
\* filter_source_type: the empty string is both None and ""
FilterSourceTypes == {"", "pdf"}

\* what the index does with a query: it may be unreachable, it may take a
\* where clause of two keys as their conjunction or reject it, and it may
\* or may not give distances
IndexFates ==
    { [up |-> TRUE, implicit_and |-> TRUE, distances |-> TRUE],
      [up |-> TRUE, implicit_and |-> TRUE, distances |-> FALSE],
      [up |-> TRUE, implicit_and |-> FALSE, distances |-> TRUE],
      [up |-> FALSE, implicit_and |-> TRUE, distances |-> TRUE] }

\* where_filter of retrieve_relevant_documents, as search hands it on
WhereFilter(filter_sources, filter_source_type) ==
    (IF filter_sources # {}
     THEN <<[key |-> "source", op |-> "$in", value |-> filter_sources]>>
     ELSE <<>>)
    \o (IF filter_source_type # ""
        THEN <<[key |-> "source_type", op |-> "$eq", value |-> filter_source_type]>>
        ELSE <<>>)

MatchesItem(item, metadata) ==
    /\ item.key \in DOMAIN metadata
    /\ IF item.op = "$in" THEN metadata[item.key] \in item.value
       ELSE metadata[item.key] = item.value

\* a slip that takes the items of a where clause as alternatives
MatchesAny(where, metadata) ==
    \E i \in 1..Len(where) : MatchesItem(where[i], metadata)

\* the chunk satisfies every item of the where clause
Matches(where, metadata) ==
    \A i \in 1..Len(where) : MatchesItem(where[i], metadata)

RECURSIVE InsertAsc(_, _)
\* x put into the ascending sequence s behind every element not above it
InsertAsc(s, x) ==
    IF s = <<>> THEN <<x>>
    ELSE IF Head(s).dist <= x.dist THEN <<Head(s)>> \o InsertAsc(Tail(s), x)
    ELSE <<x>> \o s

RECURSIVE Nearest(_)
\* the chunks by ascending distance
Nearest(s) ==
    IF s = <<>> THEN <<>>
    ELSE InsertAsc(Nearest(SubSeq(s, 1, Len(s) - 1)), s[Len(s)])

\* collection.query(query_texts=[query], n_results, where): the n_results
\* nearest of the chunks that match
Query(chunks, n_results, where) ==
    LET matching == SelectSeq(chunks, LAMBDA c : Matches(where, c.metadata))
    IN  SubSeq(Nearest(matching), 1, Min(n_results, Len(matching)))

\* whether collection.query raises
QueryRaises(where, fate) == ~fate.up \/ (Len(where) > 1 /\ ~fate.implicit_and)

\* formatted_results of VectorStore.search; a result without the key
\* "distance" is one whose distance is None
search(chunks, n_results, where, fate) ==
    LET found == Query(chunks, n_results, where)
    IN  [k \in 1..Len(found) |->
            IF fate.distances
            THEN [id |-> found[k].id, metadata |-> found[k].metadata,
                  distance |-> found[k].dist]
            ELSE [id |-> found[k].id, metadata |-> found[k].metadata]]

\* a slip that lets every result through
PassesAlways(r, similarity_threshold) == TRUE

\* the test of the list comprehension of retrieve_relevant_documents
PassesThreshold(r, similarity_threshold) ==
    \/ "distance" \notin DOMAIN r
    \/ 100 - r.distance >= similarity_threshold

\* retrieve_relevant_documents: what search gave (nothing when it raised)
\* and what is returned
retrieve_relevant_documents(chunks, config, k, filter_sources, filter_source_type, fate) ==
    LET where == WhereFilter(filter_sources, filter_source_type)
        raised == QueryRaises(where, fate)
        results == IF raised THEN <<>> ELSE search(chunks, k, where, fate)
    IN  [op |-> "retrieve",
         filter_sources |-> filter_sources,
         filter_source_type |-> filter_source_type,
         raised |-> raised,
         results |-> results,
         value |-> SelectSeq(results,
                      LAMBDA r : PassesThreshold(r, config.similarity_threshold))]

RetrieveInit ==
    /\ ChunkIdle /\ AddIdle /\ ContextIdle /\ PreprocessIdle
    /\ FallbackIdle /\ RankIdle /\ EmbedIdle /\ SheetsIdle
    /\ HeaderIdle
    /\ ConcurrentIdle
    /\ ix_chunks \in Collections(RetrieveMetadatas, Distances)
    /\ ix_frames = NoFrames
    /\ ix_config = DefaultConfig
    /\ ix_call = NoCall
    /\ ix_out = NoOutcome

\* retrieve_relevant_documents(query, k, filter_sources, filter_source_type)
Retrieve ==
    /\ \E k \in RetrieveKs \cup {ix_config.default_k}, fs \in FilterSourceSets,
          ft \in FilterSourceTypes, fate \in IndexFates :
          ix_out' = retrieve_relevant_documents(ix_chunks, ix_config, k, fs, ft, fate)
    /\ UNCHANGED <<ix_chunks, ix_frames, ix_config, ix_call>>
    /\ UNCHANGED ix_others

\* update_retrieval_config(similarity_threshold=...)
UpdateSimilarityThreshold ==
    /\ \E t \in Thresholds :
          ix_config' = [ix_config EXCEPT !.similarity_threshold = t]
    /\ ix_out' = [op |-> "update_retrieval_config"]
    /\ UNCHANGED <<ix_chunks, ix_frames, ix_call>>
    /\ UNCHANGED ix_others

RetrieveNext == Retrieve \/ UpdateSimilarityThreshold

SpecRetrieve == RetrieveInit /\ [][RetrieveNext]_vars

RECURSIVE IsSubsequence(_, _)
\* a is b with some elements left out
IsSubsequence(a, b) ==
    IF a = <<>> THEN TRUE
    ELSE IF b = <<>> THEN FALSE
    ELSE IF Head(a) = Head(b) THEN IsSubsequence(Tail(a), Tail(b))
    ELSE IsSubsequence(a, Tail(b))

\* C13 as worded: every result retrieve_relevant_documents returns has no
\* distance or a similarity 1 - distance of at least 0.3, whatever calls of
\* update_retrieval_config came before, and the results returned are a
\* subsequence of the search results.
C13_ThresholdFixed ==
    ix_out.op = "retrieve" =>
        /\ \A i \in 1..Len(ix_out.value) :
               \/ "distance" \notin DOMAIN ix_out.value[i]
               \/ 100 - ix_out.value[i].distance >= 30
        /\ IsSubsequence(ix_out.value, ix_out.results)

\* C13, amended: every result retrieve_relevant_documents returns has no
\* distance or a similarity 1 - distance of at least the similarity_threshold
\* configured at the time of the call (0.3 until update_retrieval_config
\* changes it), and the results returned are a subsequence of the search
\* results.
C13_ThresholdConfigured ==
    ix_out.op = "retrieve" =>
        /\ \A i \in 1..Len(ix_out.value) :
               \/ "distance" \notin DOMAIN ix_out.value[i]
               \/ 100 - ix_out.value[i].distance >= ix_config.similarity_threshold
        /\ IsSubsequence(ix_out.value, ix_out.results)

\* with the threshold raised to 0.5, a search result of similarity 0.3 is
\* dropped and the nearer one is returned
C13_Witness ==
    /\ ix_out.op = "retrieve"
    /\ ix_config.similarity_threshold = 50
    /\ Len(ix_out.results) = 2 /\ Len(ix_out.value) = 1
    /\ "distance" \in DOMAIN ix_out.results[2]
    /\ ix_out.results[2].distance = 70
    /\ ix_out.value[1].distance = 20

\* C14: with a non-empty filter_sources, every result returned has its
\* metadata source in filter_sources and, when filter_source_type is given
\* too, that source_type: chunks of other sources are never returned.
C14_SourceFilter ==
    (ix_out.op = "retrieve" /\ ix_out.filter_sources # {}) =>
        \A i \in 1..Len(ix_out.value) :
            /\ ix_out.value[i].metadata.source \in ix_out.filter_sources
            /\ ix_out.filter_source_type # "" =>
                   ix_out.value[i].metadata.source_type = ix_out.filter_source_type

\* both filters given, both sources allowed: the pdf chunk is returned and
\* the nearer csv chunk is not
C14_Witness ==
    /\ ix_out.op = "retrieve"
    /\ ix_out.filter_sources = {PdfSource, CsvSource}
    /\ ix_out.filter_source_type = "pdf"
    /\ Len(ix_out.value) = 1
    /\ "distance" \in DOMAIN ix_out.value[1]
    /\ \E k \in 1..Len(ix_chunks) :
          /\ ix_chunks[k].metadata.source = CsvSource
          /\ ix_chunks[k].dist < ix_out.value[1].distance

(***************************************************************************)
(* VectorStore: delete_document_by_source, get_all_documents,              *)
(* get_collection_stats, search, delete_dataframe, and the route           *)
(* delete_document.  The source of a chunk is the source_name given at     *)
(* ingestion, or else the file name: any string.                           *)
(***************************************************************************)
Hash == "#"
SourceA == <<"a">>
SourceAB == <<"a", Hash, "b">>
SheetB == <<"b">>

\* the metadata ingestion gives the chunks of a pdf, a csv and an Excel file
IndexMetadatas ==
    { [source |-> SourceA, source_type |-> "pdf",
       chunking_strategy |-> "character-based"],
      [source |-> SourceA, source_type |-> "csv", rows |-> 1, columns |-> 1,
       chunking_strategy |-> "row-based"],
      [source |-> SourceA, source_type |-> "csv", rows |-> 2, columns |-> 1,
       chunking_strategy |-> "row-based"],
      [source |-> SourceAB, source_type |-> "csv", rows |-> 2, columns |-> 1,
       chunking_strategy |-> "row-based"],
      [source |-> SourceA, source_type |-> "excel", sheet_name |-> SheetB,
       rows |-> 1, columns |-> 1, chunking_strategy |-> "row-based"],
      [source |-> SourceAB, source_type |-> "excel", sheet_name |-> SheetB,
       rows |-> 1, columns |-> 1, chunking_strategy |-> "row-based"] }

\* the keys a caller may pass: a source, a source#sheet_name, an unknown one
DocumentIds ==
    {SourceA, SourceAB, SourceAB \o <<Hash>> \o SheetB, <<"z">>}

UnknownSource == <<"U", "n", "k", "n", "o", "w", "n">>

\* metadata.get(key, default)
Get(metadata, key, default) ==
    IF key \in DOMAIN metadata THEN metadata[key] ELSE default

\* the position of the first # in s: s.split('#', 1) cuts there
FirstHash(s) == CHOOSE i \in 1..Len(s) : s[i] = Hash /\ \A j \in 1..(i - 1) : s[j] # Hash

\* the test of the loop of delete_document_by_source
MatchesDocument(metadata, source) ==
    LET doc_source == Get(metadata, "source", <<>>)
        sheet_name == Get(metadata, "sheet_name", <<>>)
    IN  IF sheet_name # <<>> /\ Contains(source, <<Hash>>)
        THEN LET source_part == SubSeq(source, 1, FirstHash(source) - 1)
                 sheet_part == SubSeq(source, FirstHash(source) + 1, Len(source))
             IN  doc_source = source_part /\ sheet_name = sheet_part
        ELSE doc_source = source

\* delete_document_by_source(source) with the index reachable: what is left
\* of the collection, and the count returned
delete_document_by_source(chunks, source) ==
    LET ids_to_delete ==
            SelectSeq(chunks, LAMBDA c : MatchesDocument(c.metadata, source))
    IN  [chunks |-> SelectSeq(chunks, LAMBDA c : ~MatchesDocument(c.metadata, source)),
         count |-> Len(ids_to_delete)]

\* doc_key of get_all_documents
DocKey(metadata) ==
    IF Get(metadata, "source_type", "unknown") = "excel" /\ "sheet_name" \in DOMAIN metadata
    THEN Get(metadata, "source", UnknownSource) \o <<Hash>> \o metadata["sheet_name"]
    ELSE Get(metadata, "source", UnknownSource)

\* the entry documents_map gets for the first chunk of a doc_key
DocumentEntry(metadata) ==
    [key \in {"id", "source", "source_type"}
              \cup ({"rows", "columns", "sheet_name", "chunking_strategy"}
                        \cap DOMAIN metadata) |->
        CASE key = "id" -> DocKey(metadata)
          [] key = "source" -> Get(metadata, "source", UnknownSource)
          [] key = "source_type" -> Get(metadata, "source_type", "unknown")
          [] OTHER -> metadata[key]]

RECURSIVE DocumentsMap(_)
\* list(documents_map.values()) after the scan of chunks
DocumentsMap(chunks) ==
    IF chunks = <<>> THEN <<>>
    ELSE LET before == DocumentsMap(SubSeq(chunks, 1, Len(chunks) - 1))
             metadata == chunks[Len(chunks)].metadata
         IN  IF \E i \in 1..Len(before) : before[i].id = DocKey(metadata)
             THEN before
             ELSE Append(before, DocumentEntry(metadata))

\* get_all_documents: the except branch returns []
get_all_documents(chunks, up) ==
    IF up THEN [status |-> "returned", value |-> DocumentsMap(chunks)]
    ELSE [status |-> "returned", value |-> <<>>]

\* get_collection_stats: the except branch returns a count of 0
get_collection_stats(chunks, up) ==
    IF up THEN [status |-> "returned", total_documents |-> Len(chunks)]
    ELSE [status |-> "returned", total_documents |-> 0]

\* a slip that lets the failure of os.remove out
delete_dataframe_raising(frames, dataframe_key, remove_fails) ==
    [frames |-> [memory |-> frames.memory \ {dataframe_key},
                 disk |-> IF remove_fails THEN frames.disk
                          ELSE frames.disk \ {dataframe_key}],
     raised |-> remove_fails /\ dataframe_key \in frames.disk]

\* delete_dataframe(dataframe_key): the entry in memory goes first, then the
\* file, whose removal may fail; the exception is logged and not raised
delete_dataframe(frames, dataframe_key, remove_fails) ==
    [frames |-> [memory |-> frames.memory \ {dataframe_key},
                 disk |-> IF remove_fails THEN frames.disk
                          ELSE frames.disk \ {dataframe_key}],
     raised |-> FALSE]

\* dataframe_key of the ingestion route: the source of a csv file, the
\* source#sheet_name of an Excel sheet
DataframeKeys(chunks) ==
    {DocKey(chunks[k].metadata) :
        k \in {i \in 1..Len(chunks) : chunks[i].metadata.source_type \in {"csv", "excel"}}}

\* filter_sources of a /retrieve request: none, one id, or a known and an
\* unknown id
RequestedSources ==
    {{}} \cup {{d} : d \in DocumentIds} \cup {{SourceA, <<"z">>}}

\* validate_filter_sources: the requested ids that get_all_documents lists
\* (get_all_documents raises nothing, so the except branch is never taken)
validate_filter_sources(chunks, filter_sources, up) ==
    IF filter_sources = {} THEN {}
    ELSE LET available_docs == get_all_documents(chunks, up).value
             available_ids == {available_docs[i].id : i \in 1..Len(available_docs)}
         IN  {src \in filter_sources : src \in available_ids}

\* retrieve_and_rank: the documents of retrieve_relevant_documents; the
\* context and the references are made of them by get_document_context
retrieve_and_rank(chunks, config, k, filter_sources, fate) ==
    retrieve_relevant_documents(chunks, config, k, filter_sources, "", fate)

IndexInit ==
    /\ ChunkIdle /\ AddIdle /\ ContextIdle /\ PreprocessIdle
    /\ FallbackIdle /\ RankIdle /\ EmbedIdle /\ SheetsIdle
    /\ HeaderIdle
    /\ ConcurrentIdle
    /\ ix_chunks \in Collections(IndexMetadatas, {20})
    /\ ix_frames \in {[memory |-> DataframeKeys(ix_chunks), disk |-> disk] :
                         disk \in {{}, DataframeKeys(ix_chunks)}}
    /\ ix_config = DefaultConfig
    /\ ix_call = NoCall
    /\ ix_out = NoOutcome

\* VectorStore.search(query)
IndexSearch ==
    /\ ix_call = NoCall
    /\ \E up \in BOOLEAN :
          LET fate == [up |-> up, implicit_and |-> TRUE, distances |-> TRUE]
          IN  ix_out' =
                  IF QueryRaises(<<>>, fate)
                  THEN [op |-> "search", up |-> up, status |-> "raised"]
                  ELSE [op |-> "search", up |-> up, status |-> "returned",
                        value |-> search(ix_chunks, DefaultConfig.default_k, <<>>, fate)]
    /\ UNCHANGED <<ix_chunks, ix_frames, ix_config, ix_call>>
    /\ UNCHANGED ix_others

\* VectorStore.delete_document_by_source(source)
IndexDeleteBySource ==
    /\ ix_call = NoCall
    /\ \E source \in DocumentIds, up \in BOOLEAN :
          LET deleted == delete_document_by_source(ix_chunks, source)
          IN  IF up
              THEN /\ ix_chunks' = deleted.chunks
                   /\ ix_out' = [op |-> "delete_document_by_source", source |-> source,
                                 up |-> up, status |-> "returned", value |-> deleted.count]
              ELSE /\ ix_chunks' = ix_chunks
                   /\ ix_out' = [op |-> "delete_document_by_source", source |-> source,
                                 up |-> up, status |-> "raised"]
    /\ UNCHANGED <<ix_frames, ix_config, ix_call>>
    /\ UNCHANGED ix_others

\* VectorStore.get_all_documents()
IndexGetAllDocuments ==
    /\ ix_call = NoCall
    /\ \E up \in BOOLEAN :
          LET got == get_all_documents(ix_chunks, up)
          IN  ix_out' = IF got.status = "raised"
                        THEN [op |-> "get_all_documents", up |-> up, status |-> "raised"]
                        ELSE [op |-> "get_all_documents", up |-> up,
                              status |-> "returned", value |-> got.value]
    /\ UNCHANGED <<ix_chunks, ix_frames, ix_config, ix_call>>
    /\ UNCHANGED ix_others

\* VectorStore.get_collection_stats()
IndexGetCollectionStats ==
    /\ ix_call = NoCall
    /\ \E up \in BOOLEAN :
          LET got == get_collection_stats(ix_chunks, up)
          IN  ix_out' = [op |-> "get_collection_stats", up |-> up,
                        status |-> got.status, value |-> got.total_documents]
    /\ UNCHANGED <<ix_chunks, ix_frames, ix_config, ix_call>>
    /\ UNCHANGED ix_others

\* retrieve_documents, the route /retrieve: validate_filter_sources, then
\* retrieve_and_rank with the valid ids, or with None when none is left
RetrieveDocuments ==
    /\ ix_call = NoCall
    /\ \E requested \in RequestedSources, enum_up \in BOOLEAN, up \in BOOLEAN :
          LET fate == [up |-> up, implicit_and |-> TRUE, distances |-> TRUE]
              filter_sources == validate_filter_sources(ix_chunks, requested, enum_up)
              ranked == retrieve_and_rank(ix_chunks, ix_config, ix_config.default_k,
                                          filter_sources, fate)
          IN  ix_out' = [op |-> "retrieve_documents",
                         requested |-> requested,
                         enum_up |-> enum_up,
                         filter_sources |-> filter_sources,
                         where |-> WhereFilter(filter_sources, ""),
                         documents |-> ranked.value,
                         documents_count |-> Len(ranked.value),
                         status |-> "success"]
    /\ UNCHANGED <<ix_chunks, ix_frames, ix_config, ix_call>>
    /\ UNCHANGED ix_others

\* delete_document: delete_document_by_source raises, HTTP 500
DeleteDocumentRaises ==
    /\ ix_call = NoCall
    /\ \E document_id \in DocumentIds :
          ix_out' = [op |-> "delete_document", document_id |-> document_id,
                     status |-> "error", code |-> 500]
    /\ UNCHANGED <<ix_chunks, ix_frames, ix_config, ix_call>>
    /\ UNCHANGED ix_others

\* delete_document: no chunk was deleted, HTTP 404
DeleteDocumentNotFound ==
    /\ ix_call = NoCall
    /\ \E document_id \in DocumentIds :
          /\ delete_document_by_source(ix_chunks, document_id).count = 0
          /\ ix_out' = [op |-> "delete_document", document_id |-> document_id,
                        status |-> "error", code |-> 404]
    /\ UNCHANGED <<ix_chunks, ix_frames, ix_config, ix_call>>
    /\ UNCHANGED ix_others

\* delete_document: the chunks are deleted; delete_dataframe comes next
DeleteDocumentChunks ==
    /\ ix_call = NoCall
    /\ \E document_id \in DocumentIds :
          LET deleted == delete_document_by_source(ix_chunks, document_id)
          IN  /\ deleted.count # 0
              /\ ix_chunks' = deleted.chunks
              /\ ix_call' = [op |-> "delete_document", document_id |-> document_id,
                             deleted_count |-> deleted.count,
                             removed |-> SelectSeq(ix_chunks, LAMBDA c :
                                 MatchesDocument(c.metadata, document_id))]
    /\ ix_out' = NoOutcome
    /\ UNCHANGED <<ix_frames, ix_config>>
    /\ UNCHANGED ix_others

\* delete_document: delete_dataframe(document_id), then the response
DeleteDocumentDataframe ==
    /\ ix_call.op = "delete_document"
    /\ \E remove_fails \in BOOLEAN :
          LET done == delete_dataframe(ix_frames, ix_call.document_id, remove_fails)
          IN  /\ ix_frames' = done.frames
              /\ ix_out' =
                     IF done.raised
                     THEN [op |-> "delete_document",
                           document_id |-> ix_call.document_id,
                           status |-> "error", code |-> 500]
                     ELSE [op |-> "delete_document",
                           document_id |-> ix_call.document_id,
                           status |-> "success",
                           chunks_deleted |-> ix_call.deleted_count]
    /\ ix_call' = NoCall
    /\ UNCHANGED <<ix_chunks, ix_config>>
    /\ UNCHANGED ix_others

IndexNext ==
    \/ IndexSearch \/ IndexDeleteBySource \/ IndexGetAllDocuments
    \/ IndexGetCollectionStats \/ DeleteDocumentRaises \/ DeleteDocumentNotFound
    \/ DeleteDocumentChunks \/ DeleteDocumentDataframe \/ RetrieveDocuments

SpecIndex == IndexInit /\ [][IndexNext]_vars

\* the two patterns of a key as the claim words them: the source itself, or
\* source#sheet_name with both parts equal
KeyNames(metadata, key) ==
    \/ Get(metadata, "source", <<>>) = key
    \/ /\ "sheet_name" \in DOMAIN metadata
       /\ key = Get(metadata, "source", <<>>) \o <<Hash>> \o metadata["sheet_name"]

\* C15: delete_document_by_source(key) removes every chunk whose metadata
\* matches key under either pattern and leaves every other chunk as it was;
\* the count returned is the number of chunks removed; when nothing matches
\* it returns 0 and the collection is unchanged.
C15_DeleteBySourceEffect ==
    [][(ix_out'.op = "delete_document_by_source" /\ ix_out'.status = "returned") =>
          /\ ix_chunks' =
                 SelectSeq(ix_chunks, LAMBDA c : ~KeyNames(c.metadata, ix_out'.source))
          /\ ix_out'.value = Len(ix_chunks) - Len(ix_chunks')]_vars

\* C16: with the index unreachable, search, delete_document_by_source,
\* get_all_documents and get_collection_stats each raise to the caller and
\* return no normal-looking result.
C16_FailuresAreFatal ==
    (/\ ix_out.op \in {"search", "delete_document_by_source", "get_all_documents",
                        "get_collection_stats"}
     /\ ~ix_out.up) => ix_out.status = "raised"

\* the (source, sheet_name?) pair of a chunk or of an entry
Group(metadata) ==
    <<Get(metadata, "source", UnknownSource), Get(metadata, "sheet_name", <<>>)>>

\* the first chunk, in scan order, of the group of entry
FirstOfGroup(entry) ==
    ix_chunks[CHOOSE k \in 1..Len(ix_chunks) :
                 /\ Group(ix_chunks[k].metadata) = Group(entry)
                 /\ \A j \in 1..(k - 1) : Group(ix_chunks[j].metadata) # Group(entry)]

\* C17: get_all_documents returns one entry per distinct (source,
\* sheet_name?) group of the stored chunks, the ids pairwise distinct; every
\* chunk belongs to exactly one entry; the rows, columns, sheet_name and
\* chunking_strategy of an entry are those of the first chunk of its group.
C17_OneEntryPerGroup ==
    (ix_out.op = "get_all_documents" /\ ix_out.up) =>
        LET docs == ix_out.value
            groups == {Group(ix_chunks[k].metadata) : k \in 1..Len(ix_chunks)}
        IN  /\ Len(docs) = Cardinality(groups)
            /\ \A i, j \in 1..Len(docs) : i # j => docs[i].id # docs[j].id
            /\ \A k \in 1..Len(ix_chunks) :
                   Cardinality({i \in 1..Len(docs) :
                                   Group(docs[i]) = Group(ix_chunks[k].metadata)}) = 1
            /\ \A i \in 1..Len(docs) :
                   \A key \in {"rows", "columns", "sheet_name", "chunking_strategy"} :
                       /\ (key \in DOMAIN docs[i])
                              = (key \in DOMAIN FirstOfGroup(docs[i]).metadata)
                       /\ key \in DOMAIN docs[i] =>
                              docs[i][key] = FirstOfGroup(docs[i]).metadata[key]

\* C20: in delete_document the chunks are deleted before delete_dataframe
\* is attempted; once at least one chunk was removed the response is a
\* success with the count of the chunks removed, whether or not the removal
\* of the dataframe fails, and the chunks stay deleted.
C20_BestEffortDataframeDeletion ==
    /\ [](ix_call.op = "delete_document" =>
             /\ ix_call.deleted_count >= 1
             /\ delete_document_by_source(ix_chunks, ix_call.document_id).count = 0)
    /\ [][ix_frames' # ix_frames => ix_call.op = "delete_document"]_vars
    /\ [][ix_call.op = "delete_document" =>
             /\ ix_out'.op = "delete_document"
             /\ ix_out'.status = "success"
             /\ ix_out'.chunks_deleted = ix_call.deleted_count
             /\ ix_chunks' = ix_chunks]_vars

\* the ids get_all_documents lists for a collection
EnumeratedIds(chunks) ==
    {DocumentsMap(chunks)[i].id : i \in 1..Len(DocumentsMap(chunks))}

\* C26: for every id d that get_all_documents returns,
\* delete_document_by_source(d) removes exactly the chunks grouped under d,
\* at least one, and no chunk of another enumerated document; afterwards
\* get_all_documents lists every other id as before and d no longer.
C26_EnumerateDeleteRoundTrip ==
    [][(/\ ix_out'.op = "delete_document_by_source"
        /\ ix_out'.status = "returned"
        /\ ix_out'.source \in EnumeratedIds(ix_chunks)) =>
          /\ ix_chunks' =
                 SelectSeq(ix_chunks, LAMBDA c : DocKey(c.metadata) # ix_out'.source)
          /\ ix_out'.value >= 1
          /\ ix_out'.value = Len(ix_chunks) - Len(ix_chunks')
          /\ DocumentsMap(ix_chunks') =
                 SelectSeq(DocumentsMap(ix_chunks), LAMBDA e : e.id # ix_out'.source)]_vars

\* C27: for a /retrieve request with a non-empty filter_sources every chunk
\* in the response comes from one of the requested sources; when none of
\* the requested ids is among the enumerable documents, or enumeration
\* fails, the response holds no chunk.
C27_FilteredRetrieveNeverWidens ==
    (ix_out.op = "retrieve_documents" /\ ix_out.requested # {}) =>
        /\ \A i \in 1..Len(ix_out.documents) :
              \/ ix_out.documents[i].metadata.source \in ix_out.requested
              \/ DocKey(ix_out.documents[i].metadata) \in ix_out.requested
        /\ (ix_out.requested \cap EnumeratedIds(ix_chunks) = {} \/ ~ix_out.enum_up)
              => ix_out.documents = <<>>

\* C28: for every id d that get_all_documents returns, Excel sheet ids
\* included, validate_filter_sources([d]) keeps d and the metadata filter
\* retrieve_relevant_documents then applies matches exactly the chunks
\* grouped under d.
C28_EnumeratedIdsFilter ==
    (/\ ix_out.op = "retrieve_documents"
     /\ ix_out.enum_up
     /\ \E d \in EnumeratedIds(ix_chunks) : ix_out.requested = {d}) =>
        /\ ix_out.filter_sources = ix_out.requested
        /\ \A k \in 1..Len(ix_chunks) :
              Matches(ix_out.where, ix_chunks[k].metadata)
                  = (DocKey(ix_chunks[k].metadata) \in ix_out.requested)

\* the tables of the chunks a call of delete_document has removed: the
\* dataframe_key under which ingestion stored the table of each
RemovedTables ==
    DataframeKeys(ix_call.removed)

\* C22: once delete_document(K) has removed the chunks of a source or of a
\* source#sheet, no table of a source or sheet whose chunks that call
\* removed is left in the table cache, in memory or on disk; deleting a
\* source with sheets by its bare name leaves no 'source#sheet_name' table.
C22_TablesFollowChunks ==
    [][ix_call.op = "delete_document" =>
          RemovedTables \cap (ix_frames'.memory \cup ix_frames'.disk) = {}]_vars

\* a success that reports two chunks deleted while the file of the dataframe
\* could not be removed
C20_Witness ==
    /\ ix_out.op = "delete_document"
    /\ ix_out.status = "success"
    /\ ix_out.chunks_deleted = 2
    /\ ix_out.document_id \in ix_frames.disk
    /\ ix_out.document_id \notin ix_frames.memory

(***************************************************************************)
(* ChromaDBEmbeddingFunction.__call__ under VectorStore.add_documents and  *)
(* VectorStore.search.  A text is its length.  collection.add and          *)
(* collection.query hand their texts to the embedding function and store   *)
(* or search only with what it returns.                                    *)
(***************************************************************************)
MAX_CHUNK_SIZE == 30000
MaxTexts == 3           \* texts of one call of add_documents
MaxEmbedStored == 4     \* texts in the collection

EmbedTextLengths == {1, MAX_CHUNK_SIZE, MAX_CHUNK_SIZE + 1}
TextLists == UNION {[1..n -> EmbedTextLengths] : n \in 1..MaxTexts}

\* a slip that leaves the size test out
TooLongNever(text) == FALSE

\* the test of the validation loop of __call__
TooLong(text) == text > MAX_CHUNK_SIZE

\* __call__(input): embed_documents is invoked only when the loop over all
\* the texts has raised for none; it fails when the API does
EmbeddingCall(input, api_up) ==
    LET invoked == \A i \in 1..Len(input) : ~TooLong(input[i])
    IN  [input |-> input, invoked |-> invoked, stored |-> invoked /\ api_up]

RECURSIVE AddOneByOne(_, _, _, _)
\* the one-by-one loop of add_documents over the texts left
AddOneByOne(store, texts, api_up, attempts) ==
    IF texts = <<>>
    THEN [store |-> store, status |-> "returned", attempts |-> attempts]
    ELSE LET call == EmbeddingCall(<<Head(texts)>>, api_up)
         IN  IF call.stored
             THEN AddOneByOne(Append(store, Head(texts)), Tail(texts), api_up,
                              Append(attempts, call))
             ELSE [store |-> store, status |-> "raised",
                   attempts |-> Append(attempts, call)]

\* add_documents(texts) for texts of one batch
add_documents(store, texts, api_up) ==
    LET batch == EmbeddingCall(texts, api_up)
    IN  IF batch.stored
        THEN [store |-> store \o texts, status |-> "returned", attempts |-> <<batch>>]
        ELSE AddOneByOne(store, texts, api_up, <<batch>>)

EmbedInit ==
    /\ ChunkIdle /\ AddIdle /\ ContextIdle /\ PreprocessIdle
    /\ FallbackIdle /\ RankIdle /\ IndexIdle /\ SheetsIdle
    /\ HeaderIdle
    /\ ConcurrentIdle
    /\ em_store = <<>>
    /\ em_out = NoOutcome

\* VectorStore.add_documents(texts, metadatas)
EmbedAddDocuments ==
    /\ \E texts \in TextLists, api_up \in BOOLEAN :
          LET done == add_documents(em_store, texts, api_up)
          IN  /\ Len(em_store) + Len(texts) <= MaxEmbedStored
              /\ em_store' = done.store
              /\ em_out' = [op |-> "add_documents", status |-> done.status,
                            attempts |-> done.attempts]
    /\ UNCHANGED em_others

\* VectorStore.search(query): collection.query embeds the query text
EmbedSearch ==
    /\ \E query \in EmbedTextLengths, api_up \in BOOLEAN :
          LET call == EmbeddingCall(<<query>>, api_up)
          IN  em_out' = [op |-> "search",
                        status |-> IF call.stored THEN "returned" ELSE "raised",
                        attempts |-> <<[call EXCEPT !.stored = FALSE]>>]
    /\ UNCHANGED em_store
    /\ UNCHANGED em_others

EmbedNext == EmbedAddDocuments \/ EmbedSearch

SpecEmbed == EmbedInit /\ [][EmbedNext]_vars

\* C18: the embedding capability is never invoked with a text of more than
\* 30,000 characters; a call of the embedding function with such a text
\* among its texts fails before the capability is invoked for any of them
\* and stores nothing; no text of more than 30,000 characters is in the
\* collection.
C18_EmbeddingCeiling ==
    /\ \A k \in 1..Len(em_store) : em_store[k] <= 30000
    /\ em_out.op # "none" =>
           \A a \in 1..Len(em_out.attempts) :
               LET attempt == em_out.attempts[a]
               IN  (\E i \in 1..Len(attempt.input) : attempt.input[i] > 30000) =>
                       ~attempt.invoked /\ ~attempt.stored

\* a batch with a text of 30,001 characters behind one of 30,000: the batch
\* is refused whole, the one-by-one loop stores the first text and raises at
\* the second
C18_Witness ==
    /\ em_out.op = "add_documents" /\ em_out.status = "raised"
    /\ Len(em_out.attempts) = 3
    /\ em_out.attempts[1].input = <<30000, 30001, 1>>
    /\ ~em_out.attempts[1].invoked
    /\ em_out.attempts[2].stored
    /\ em_store = <<30000>>

(***************************************************************************)
(* CSVExcelHandler: load_and_preprocess_data, then switch_sheet.           *)
(* A sheet name is a string; a table is known by its name and by whether   *)
(* it is empty once preprocessed.                                          *)
(***************************************************************************)
MaxFileSheets == 3      \* sheets of an Excel file

DefaultSheet == "default"
\* the names the sheets of an Excel file may have
FileSheetNames ==
    {<<"Sheet1", "Sheet2", "Sheet3", "Sheet4", "Sheet5">>[k] : k \in 1..MaxFileSheets}
UnknownSheet == "Missing"

\* the sheets of the files: the sheets of an Excel file have distinct names
ExcelSheets ==
    UNION {{f \in [1..n -> [name : FileSheetNames, empty : BOOLEAN]] :
               \A i, j \in 1..n : i # j => f[i].name # f[j].name} :
           n \in 0..MaxFileSheets}
Files ==
    {[type |-> "csv", sheets |-> <<[name |-> DefaultSheet, empty |-> e]>>] :
        e \in BOOLEAN}
    \cup {[type |-> "excel", sheets |-> f] : f \in ExcelSheets}
    \cup {[type |-> "other", sheets |-> <<>>]}

\* dfs after the load: the sheet of a csv file whatever it holds, the sheets
\* of an Excel file that are not empty
LoadedDfs(file) ==
    IF file.type = "csv" THEN file.sheets
    ELSE SelectSeq(file.sheets, LAMBDA sheet : ~sheet.empty)

\* whether load_and_preprocess_data raises
LoadRaises(file) ==
    \/ file.type = "other"
    \/ file.type = "excel" /\ LoadedDfs(file) = <<>>

HasSheet(dfs, sheet_name) == \E k \in 1..Len(dfs) : dfs[k].name = sheet_name

\* a slip that leaves the membership test out
switch_sheet_unchecked(dfs, current_sheet, sheet_name) ==
    [current_sheet |-> sheet_name, status |-> "returned"]

\* switch_sheet(sheet_name): current_sheet after the call, and whether it
\* returned or raised ValueError
switch_sheet(dfs, current_sheet, sheet_name) ==
    IF ~HasSheet(dfs, sheet_name)
    THEN [current_sheet |-> current_sheet, status |-> "raised"]
    ELSE [current_sheet |-> sheet_name, status |-> "returned"]

SheetsInit ==
    /\ ChunkIdle /\ AddIdle /\ ContextIdle /\ PreprocessIdle
    /\ FallbackIdle /\ RankIdle /\ IndexIdle /\ EmbedIdle
    /\ HeaderIdle
    /\ ConcurrentIdle
    /\ sh_file \in Files
    /\ sh_dfs = <<>>
    /\ sh_current = NoSheet
    /\ sh_out = NoOutcome
    /\ sh_pc = "new"

\* load_and_preprocess_data() returns
LoadOk ==
    /\ sh_pc = "new"
    /\ ~LoadRaises(sh_file)
    /\ sh_dfs' = LoadedDfs(sh_file)
    /\ sh_current' = LoadedDfs(sh_file)[1].name
    /\ sh_out' = [op |-> "load_and_preprocess_data", status |-> "returned"]
    /\ sh_pc' = "loaded"
    /\ UNCHANGED sh_file
    /\ UNCHANGED sh_others

\* load_and_preprocess_data() raises
LoadFails ==
    /\ sh_pc = "new"
    /\ LoadRaises(sh_file)
    /\ sh_out' = [op |-> "load_and_preprocess_data", status |-> "raised"]
    /\ sh_pc' = "failed"
    /\ UNCHANGED <<sh_file, sh_dfs, sh_current>>
    /\ UNCHANGED sh_others

\* switch_sheet(sheet_name) on the loaded handler
SwitchSheetCall ==
    /\ sh_pc = "loaded"
    /\ \E sheet_name \in FileSheetNames \cup {DefaultSheet, UnknownSheet} :
          LET done == switch_sheet(sh_dfs, sh_current, sheet_name)
          IN  /\ sh_current' = done.current_sheet
              /\ sh_out' = [op |-> "switch_sheet", sheet_name |-> sheet_name,
                            status |-> done.status]
    /\ UNCHANGED <<sh_file, sh_dfs, sh_pc>>
    /\ UNCHANGED sh_others

SheetsNext == LoadOk \/ LoadFails \/ SwitchSheetCall

SpecSheets == SheetsInit /\ [][SheetsNext]_vars

\* C19: after a successful load and any calls of switch_sheet, current_sheet
\* names exactly one sheet of dfs; switch_sheet with a name not in dfs raises
\* and leaves current_sheet and the tables as they were; switch_sheet with
\* a name in dfs makes it current and changes nothing else.
C19_CurrentSheet ==
    /\ [](sh_pc = "loaded" =>
             Cardinality({k \in 1..Len(sh_dfs) : sh_dfs[k].name = sh_current}) = 1)
    /\ [][sh_out'.op = "switch_sheet" =>
             /\ sh_dfs' = sh_dfs /\ sh_file' = sh_file /\ sh_pc' = sh_pc
             /\ IF \E k \in 1..Len(sh_dfs) : sh_dfs[k].name = sh_out'.sheet_name
                THEN sh_out'.status = "returned" /\ sh_current' = sh_out'.sheet_name
                ELSE sh_out'.status = "raised" /\ sh_current' = sh_current]_vars

\* the second table of an Excel file of three sheets, the first of them
\* empty and not kept, is current, and a switch to the dropped sheet has
\* raised
C19_Witness ==
    /\ sh_pc = "loaded"
    /\ Len(sh_file.sheets) = 3 /\ Len(sh_dfs) = 2
    /\ sh_current = sh_dfs[2].name
    /\ sh_out.op = "switch_sheet" /\ sh_out.status = "raised"
    /\ sh_out.sheet_name = sh_file.sheets[1].name

(***************************************************************************)
(* Two requests of _query_with_csv_context that share one loaded           *)
(* CSVExcelHandler.  The requests run as coroutines of one event loop: a   *)
(* request gives way to the other only at await agent.ainvoke, so what it  *)
(* does between two awaits is one step.  A sheet name is the position of   *)
(* the sheet in dfs.                                                       *)
(***************************************************************************)
MaxSharedSheets == 2    \* sheets of the shared handler

Requests == {1, 2}

\* the handlers: every sheet with a table that is empty or not
SharedDfs ==
    UNION {[1..n -> BOOLEAN] : n \in 1..MaxSharedSheets}

\* the orders in which a query may rank the n sheets
SheetOrders(n) ==
    {o \in [1..n -> 1..n] : \A i, j \in 1..n : o[i] = o[j] => i = j}

\* get_current_df(): dfs[current_sheet]
get_current_df(dfs, current_sheet) ==
    CHOOSE t \in {dfs[k] : k \in 1..Len(dfs)} : t.name = current_sheet

\* a slip that lets the agent take the handler's current table when it answers
AgentTableLate(df, current_df) == current_df

\* create_pandas_dataframe_agent(df=df): the agent works on the table it was
\* created with, whatever the handler's current sheet is when it answers
AgentTable(df, current_df) == df

RECURSIVE Switched(_, _, _)
\* the sheets a request switches to from position k of sheets_to_try on,
\* without giving way: every empty one it skips and the first that is not
Switched(dfs, sheets, k) ==
    IF k > Len(sheets) THEN <<>>
    ELSE IF get_current_df(dfs, sheets[k]).empty
         THEN <<sheets[k]>> \o Switched(dfs, sheets, k + 1)
         ELSE <<sheets[k]>>

RECURSIVE SwitchAll(_, _, _)
\* current_sheet after the calls switch_sheet(s) for the sheets of names
SwitchAll(dfs, current_sheet, names) ==
    IF names = <<>> THEN current_sheet
    ELSE SwitchAll(dfs, switch_sheet(dfs, current_sheet, Head(names)).current_sheet,
                   Tail(names))

ConcurrentInit ==
    /\ ChunkIdle /\ AddIdle /\ ContextIdle /\ PreprocessIdle /\ FallbackIdle
    /\ RankIdle /\ IndexIdle /\ EmbedIdle /\ SheetsIdle /\ HeaderIdle
    /\ \E empties \in SharedDfs :
          cc_dfs = [k \in 1..Len(empties) |-> [name |-> k, empty |-> empties[k]]]
    /\ cc_current \in 1..Len(cc_dfs)
    /\ cc_sheets \in [Requests -> SheetOrders(Len(cc_dfs))]
    /\ cc_k = [r \in Requests |-> 0]
    /\ cc_df = [r \in Requests |-> [name |-> 0, empty |-> TRUE]]
    /\ cc_switched = <<>>
    /\ cc_result = [r \in Requests |-> NoResult]
    /\ cc_pc = [r \in Requests |-> "start"]

\* request r goes on from position k of its sheets_to_try until it awaits
\* the agent for a sheet that has rows, or until the list is exhausted
RunToAwait(r, k) ==
    LET names == Switched(cc_dfs, cc_sheets[r], k)
        current_sheet == SwitchAll(cc_dfs, cc_current, names)
        at == k + Len(names) - 1
        awaits == names # <<>> /\ ~get_current_df(cc_dfs, current_sheet).empty
    IN  /\ cc_current' = current_sheet
        /\ cc_switched' =
               cc_switched \o [i \in 1..Len(names) |-> [request |-> r, sheet_name |-> names[i]]]
        /\ cc_k' = [cc_k EXCEPT ![r] = IF awaits THEN at ELSE Len(cc_sheets[r]) + 1]
        /\ cc_df' = [cc_df EXCEPT ![r] =
                        IF names = <<>> THEN cc_df[r]
                        ELSE get_current_df(cc_dfs, current_sheet)]
        /\ cc_pc' = [cc_pc EXCEPT ![r] = IF awaits THEN "awaiting" ELSE "failed"]
        /\ cc_result' = [cc_result EXCEPT ![r] =
                            IF awaits THEN cc_result[r]
                            ELSE [status |-> "error", code |-> 400]]

\* a request arrives and runs to its first await
ConcurrentStart ==
    /\ \E r \in Requests :
          /\ cc_pc[r] = "start"
          /\ RunToAwait(r, 1)
    /\ UNCHANGED <<cc_dfs, cc_sheets>>
    /\ UNCHANGED cc_others

\* the agent of a request gives a conclusive answer: the request returns it
\* with the reference of its sheet_name
ConcurrentAccept ==
    /\ \E r \in Requests :
          /\ cc_pc[r] = "awaiting"
          /\ cc_result' = [cc_result EXCEPT ![r] =
                 [status |-> "success",
                  reference |-> cc_sheets[r][cc_k[r]],
                  answered_from |->
                      AgentTable(cc_df[r], get_current_df(cc_dfs, cc_current)).name]]
          /\ cc_pc' = [cc_pc EXCEPT ![r] = "returned"]
    /\ UNCHANGED <<cc_dfs, cc_current, cc_sheets, cc_k, cc_df, cc_switched>>
    /\ UNCHANGED cc_others

\* the agent of a request gives no conclusive answer, or raises: the
\* request goes on with its next candidate
ConcurrentContinue ==
    /\ \E r \in Requests :
          /\ cc_pc[r] = "awaiting"
          /\ RunToAwait(r, cc_k[r] + 1)
    /\ UNCHANGED <<cc_dfs, cc_sheets>>
    /\ UNCHANGED cc_others

ConcurrentNext == ConcurrentStart \/ ConcurrentAccept \/ ConcurrentContinue

SpecConcurrent == ConcurrentInit /\ [][ConcurrentNext]_vars

\* C29: under every interleaving of two requests that share a handler, the
\* table handed to the agent for a candidate is the table of that
\* candidate's sheet, the reference of an accepted answer names the sheet
\* whose table gave it, and current_sheet is the sheet of the last
\* switch_sheet call.
C29_RequestsDoNotMixTables ==
    /\ \A r \in Requests :
          /\ cc_pc[r] = "awaiting" =>
                /\ cc_df[r].name = cc_sheets[r][cc_k[r]]
                /\ ~cc_df[r].empty
          /\ cc_pc[r] = "returned" =>
                cc_result[r].reference = cc_result[r].answered_from
    /\ cc_switched # <<>> =>
          cc_current = cc_switched[Len(cc_switched)].sheet_name

\* both requests have answered, from different sheets; their switch_sheet
\* calls were interleaved and the second request made the last one
C29_Witness ==
    /\ cc_pc = [r \in Requests |-> "returned"]
    /\ cc_result[1].reference # cc_result[2].reference
    /\ cc_current = cc_result[2].reference
    /\ cc_switched[Len(cc_switched)].request = 2
    /\ \E i \in 1..Len(cc_switched) :
          /\ cc_switched[i].request = 1
          /\ \E j \in 1..(i - 1) : cc_switched[j].request = 2

====
